---- MODULE Spec2Model ----
(***************************************************************************)
(* A model of EzS2T-Whisper's recording state machine                      *)
(* (internal/recording/recording.go), of the audio driver it drives        *)
(* (internal/audio/portaudio.go), of the clipboard safe-paste manager      *)
(* (internal/clipboard/clipboard.go), of the global hotkey manager         *)
(* (internal/hotkey/hotkey.go) and of the orchestrator's use of it         *)
(* (onReady, hotkeyEventLoop and ReloadHotkey of the main package).        *)
(*                                                                         *)
(* SpecRec is the recording manager with its goroutines: the event         *)
(* handling goroutine started by Start(), one goroutine per expired        *)
(* time.AfterFunc timer, a task calling Stop(), and a consumer of Data().  *)
(* SpecClip is SafePaste, statement by statement, interleaved with the     *)
(* user copying to the system clipboard.                                   *)
(* SpecKey is the hotkey manager called through its API, with the key, the *)
(* listen() goroutine and a goroutine consuming Events(). SpecHot is the   *)
(* manager under the orchestrator: onReady, ReloadHotkey with its rollback *)
(* and the hotkeyEventLoop goroutines. SpecCfg is a caller that mutates    *)
(* the Config it got from GetConfig().                                     *)
(***************************************************************************)
EXTENDS Integers, Sequences, FiniteSets, TLC

(* ------------------------------ bounds --------------------------------- *)
\* recordings that may be started (one timer is created per recording)
MaxCycles == 2
\* hotkey events the event handling goroutine may receive
MaxEvents == 4
\* calls of Manager.Stop()
MaxStopCalls == 2
\* SafePaste invocations
MaxPastes == 2
\* clipboard copies made by the user
MaxUserCopies == 2
\* calls of hotkey Manager.Register made outside ReloadHotkey
MaxRegisters == 2
\* calls of ReloadHotkey and registration requests to handleHotkeyRegister
MaxReloads == 1
\* key-down and key-up signals the hardware produces
MaxKeySignals == 4
\* calls of hotkey Manager.GetConfig made by the caller for itself
MaxGets == 2
\* mutations the caller makes to the config it got
MaxMutations == 2
\* the longest modifier list passed to the conflict and format functions
MaxMods == 2
\* the runes of the longest text that is shorter than the search window
MaxTextLen == 4
\* the largest m.splitSize smaller than the search window
MaxSplitSize == 3

(* -------------------------- program constants -------------------------- *)
\* make(chan []byte, 1)
DataChanCap == 1
\* make(chan Event, 10)
EventChanCap == 10

(* ------------------------------ identities ----------------------------- *)
\* the goroutine running handleHotkeyEvents; timer goroutines are 1..MaxCycles
Handler == 0
\* the task that calls Stop()
Stopper == 100
\* sync.Mutex unlocked
Free == 99
\* a nil *time.Timer
NilTimer == 0

\* the task that calls the hotkey manager (the orchestrator)
AppTask == 101
\* a nil channel
NilChan == 0
\* a nil slice
NilArr == 0
\* a nil *hotkey.Hotkey
NilHotkey == 0

Timers == 1 .. MaxCycles
Procs == {Handler} \cup Timers

VARIABLES
    \* ---- recording.Manager fields
    state,          \* "Idle" | "Recording" | "Processing"
    mu,             \* Free, or the goroutine that holds m.mu
    stopTimer,      \* NilTimer or the timer m.stopTimer points to
    dataChan,       \* buffered channel: the buffers queued
    dataChanClosed, \* close(m.dataChan) happened
    stopChanClosed, \* close(m.stopChan) happened
    wg,             \* sync.WaitGroup counter
    \* ---- runtime
    timer,          \* timer id -> "unused" | "armed" | "stopped" | "fired"
    pc,             \* goroutine -> position
    data,           \* goroutine -> buffer returned to it by audio.StopRecording (0: none)
    ret,            \* goroutine -> what its last startRecording/stopRecording did
    spc,            \* position of the Stop() caller
    sret,           \* what the last Stop() returned
    stopCalls,      \* Stop() calls made
    panicked,       \* a goroutine panicked: the process is gone
    \* ---- environment
    nEvents,        \* hotkey events received so far
    eventsClosed,   \* the hotkey manager closed its event channel
    \* ---- audio.PortAudioDriver
    audioRec,       \* d.recording
    audioBuf,       \* the recording the driver's buffer belongs to
    \* ---- history
    cycle,          \* recordings started so far
    cyc,            \* goroutine -> recording its stop sequence stopped (0: none)
    stoppedBy,      \* recording -> who moved it out of Recording (Free: nobody yet)
    audioLog,       \* the calls made to the audio driver, in order
    sends,          \* recording -> select statements executed for its buffer
    \* ---- clipboard
    cbCount,            \* the pasteboard's changeCount
    cbContent,          \* the pasteboard's text
    savedChangeCount,   \* m.savedChangeCount
    savedContent,       \* m.savedContent
    currentChangeCount, \* RestoreClipboard's local currentChangeCount
    cpc,                \* position of the SafePaste call
    text,               \* SafePaste's argument
    cret,               \* what the last SafePaste returned
    pasted,             \* what the focused application received, in order
    nPastes,            \* SafePaste calls made
    nCopies,            \* copies the user made
    preContent,         \* history: the pasteboard's text when SafePaste was called
    copyAt,             \* history: positions at which the user copied since the call
    lastUserCopy,       \* history: the text the user copied last
    myWrites,           \* history: pasteboard writes made by this call
    cbFails,            \* history: the pasteboard reads and writes of this call that failed
    co,                 \* a second SafePaste call on the same Manager: [pc, text, cur, ret]
    took,               \* history: call -> the [count, content] its SaveClipboard captured
    \* ---- hotkey.Manager
    m,          \* its fields: hk, config, eventChan, stopClosed, wg, mu, running
    heap,       \* backing arrays of the modifier slices, by address
    chans,      \* the event channels, by address: [buf, closed]
    osLive,     \* the *hotkey.Hotkey instances registered with the OS
    lis,        \* the listen() goroutine: [pc, toggleState, ev] and before (history):
                \* the toggleState the listener before it ended with
    hw,         \* the key and the signals pending on Keydown()/Keyup(): [down, kd, ku]
    loops,      \* the hotkeyEventLoop goroutines alive, oldest first: [pc, ch]
    con,        \* a handleHotkeyEvents goroutine consuming Events(): [pc, ch] and
                \* afterClose (history): its last event came off a closed queue
    app,        \* the task calling the manager: [pc, ready, ret, old, new, needsRollback, fatal]
                \* and req, the request handleHotkeyRegister got last
    got,        \* the config the caller keeps from its own GetConfig()
    nRegs,      \* Register calls made outside ReloadHotkey
    nReloads,   \* ReloadHotkey calls and registration requests made
    nSignals,   \* hardware signals produced
    nGets,      \* GetConfig calls the caller made for itself
    nMuts,      \* mutations the caller made
    \* ---- history
    hwLog,      \* signals the hardware produced since the last successful Register
    taken,      \* signals the listener took since the last successful Register
    emitted,    \* events the listener sent since the last successful Register
    \* ---- pure functions and SafePasteWithSplit
    fin,        \* the arguments of the function called
    fout,       \* what it returned
    sp,         \* a splitText call: [pc, runes, start, chunks]
    wp          \* a SafePasteWithSplit call: [pc, chunks, i, ret, log]

recVars == <<state, mu, stopTimer, dataChan, dataChanClosed, stopChanClosed, wg,
             timer, pc, data, ret, spc, sret, stopCalls, panicked, nEvents,
             eventsClosed, audioRec, audioBuf, cycle, cyc, stoppedBy, audioLog, sends>>

clipVars == <<cbCount, cbContent, savedChangeCount, savedContent, currentChangeCount,
              cpc, text, cret, pasted, nPastes, nCopies, preContent, copyAt,
              lastUserCopy, myWrites, cbFails, co, took>>

hotVars == <<m, heap, chans, osLive, lis, hw, loops, con, app, got, nRegs, nReloads, nSignals,
             nGets, nMuts, hwLog, taken, emitted>>

fnVars == <<fin, fout, sp, wp>>

vars == <<recVars, clipVars, hotVars, fnVars>>

(* ======================= audio.PortAudioDriver ========================= *)
\* StartRecording succeeds iff the driver is not recording and the stream starts
AudioStartSucceeds(streamOk) == ~audioRec /\ streamOk

\* StopRecording succeeds iff the driver is recording and the stream stops
AudioStopSucceeds(streamOk) == audioRec /\ streamOk

(* ========================= recording.Manager =========================== *)
\* where a goroutine goes when startRecording / stopRecording returns
AfterCall(g) == IF g = Handler THEN "select" ELSE "done"

\* mutant: a Pressed is refused only while Recording
StartAcceptedLoose == state # "Recording"

\* if m.state != Idle { return error }
StartAccepted == state = "Idle"

\* if m.state != Recording { return error }
StopAccepted == state = "Recording"

\* mutant: the state is set before the audio call and not reset when it fails
StateAfterStartEager(ok) == "Recording"

\* m.state after audio.StartRecording returned: Recording only on success
StateAfterStart(ok) == IF ok THEN "Recording" ELSE state

\* mutant: the timer is not cancelled
TimerAfterStopForgotten(t) == timer

\* t.Stop() of time.Timer: an armed timer will not fire, an expired one is untouched
TimerAfterStop(t) ==
    IF t # NilTimer /\ timer[t] = "armed" THEN [timer EXCEPT ![t] = "stopped"] ELSE timer

\* select { case m.dataChan <- d: default: } on an open channel
Enqueue(ch, d) == IF Len(ch) < DataChanCap THEN Append(ch, d) ELSE ch

\* which branch that select took
SelectBranch(ch) == IF Len(ch) < DataChanCap THEN "sent" ELSE "dropped"

\* m.state after a failed audio.StopRecording inside stopRecording
StateAfterStopFailure == "Idle"

RecInit ==
    /\ state = "Idle"
    /\ mu = Free
    /\ stopTimer = NilTimer
    /\ dataChan = <<>>
    /\ dataChanClosed = FALSE
    /\ stopChanClosed = FALSE
    /\ wg = 0
    /\ timer = [t \in Timers |-> "unused"]
    /\ pc = [g \in Procs |-> IF g = Handler THEN "notstarted" ELSE "none"]
    /\ data = [g \in Procs |-> 0]
    /\ ret = [g \in Procs |-> "none"]
    /\ spc = "idle"
    /\ sret = "none"
    /\ stopCalls = 0
    /\ panicked = FALSE
    /\ nEvents = 0
    /\ eventsClosed = FALSE
    /\ audioRec = FALSE
    /\ audioBuf = 0
    /\ cycle = 0
    /\ cyc = [g \in Procs |-> 0]
    /\ stoppedBy = [c \in Timers |-> Free]
    /\ audioLog = <<>>
    /\ sends = [c \in Timers |-> <<>>]

\* Manager.Start: wg.Add(1); go m.handleHotkeyEvents()
Start ==
    /\ ~panicked
    /\ pc[Handler] = "notstarted"
    /\ spc = "idle"
    /\ wg' = wg + 1
    /\ pc' = [pc EXCEPT ![Handler] = "select"]
    /\ UNCHANGED <<state, mu, stopTimer, dataChan, dataChanClosed, stopChanClosed,
                   timer, data, ret, spc, sret, stopCalls, panicked, nEvents,
                   eventsClosed, audioRec, audioBuf, cycle, cyc, stoppedBy, audioLog,
                   sends, clipVars, hotVars, fnVars>>

\* the hotkey manager closes the channel behind m.hotkey.Events()
HotkeyClosed ==
    /\ ~panicked
    /\ ~eventsClosed
    /\ eventsClosed' = TRUE
    /\ UNCHANGED <<state, mu, stopTimer, dataChan, dataChanClosed, stopChanClosed, wg,
                   timer, pc, data, ret, spc, sret, stopCalls, panicked, nEvents,
                   audioRec, audioBuf, cycle, cyc, stoppedBy, audioLog, sends, clipVars, hotVars, fnVars>>

\* handleHotkeyEvents: one pass of the select statement
HandleSelect ==
    /\ ~panicked
    /\ pc[Handler] = "select"
    /\ \/ /\ stopChanClosed \/ eventsClosed
          /\ pc' = [pc EXCEPT ![Handler] = "exited"]
          /\ wg' = wg - 1
          /\ UNCHANGED nEvents
       \/ /\ ~eventsClosed
          /\ nEvents < MaxEvents
          /\ \E ev \in {"Pressed", "Released"} :
                /\ ev = "Pressed" => cycle < MaxCycles
                /\ pc' = [pc EXCEPT ![Handler] =
                            IF ev = "Pressed" THEN "startRecording" ELSE "stopRecording"]
          /\ nEvents' = nEvents + 1
          /\ UNCHANGED wg
    /\ UNCHANGED <<state, mu, stopTimer, dataChan, dataChanClosed, stopChanClosed,
                   timer, data, ret, spc, sret, stopCalls, panicked,
                   eventsClosed, audioRec, audioBuf, cycle, cyc, stoppedBy, audioLog,
                   sends, clipVars, hotVars, fnVars>>

\* Manager.startRecording, under m.mu from entry to return
startRecording ==
    /\ ~panicked
    /\ pc[Handler] = "startRecording"
    /\ mu = Free
    /\ IF ~StartAccepted
         THEN /\ ret' = [ret EXCEPT ![Handler] = "err_state"]
              /\ UNCHANGED <<state, stopTimer, timer, audioRec, audioBuf, cycle, audioLog>>
         ELSE \E streamOk \in BOOLEAN :
                LET ok == AudioStartSucceeds(streamOk) IN
                /\ audioLog' = Append(audioLog, [op |-> "start", ok |-> ok])
                /\ state' = StateAfterStart(ok)
                /\ ret' = [ret EXCEPT ![Handler] = IF ok THEN "ok" ELSE "err_audio"]
                /\ IF ok
                     THEN /\ audioRec' = TRUE
                          /\ audioBuf' = cycle + 1
                          /\ cycle' = cycle + 1
                          /\ stopTimer' = cycle + 1
                          /\ timer' = [timer EXCEPT ![cycle + 1] = "armed"]
                     ELSE UNCHANGED <<stopTimer, timer, audioRec, audioBuf, cycle>>
    /\ pc' = [pc EXCEPT ![Handler] = AfterCall(Handler)]
    /\ UNCHANGED <<mu, dataChan, dataChanClosed, stopChanClosed, wg, data, spc, sret,
                   stopCalls, panicked, nEvents, eventsClosed, cyc, stoppedBy, sends,
                   clipVars, hotVars, fnVars>>

\* the timer of recording t expires: the runtime starts a goroutine running
\* the AfterFunc callback, which calls stopRecording
TimerFire(t) ==
    /\ ~panicked
    /\ timer[t] = "armed"
    /\ timer' = [timer EXCEPT ![t] = "fired"]
    /\ pc' = [pc EXCEPT ![t] = "stopRecording"]
    /\ UNCHANGED <<state, mu, stopTimer, dataChan, dataChanClosed, stopChanClosed, wg,
                   data, ret, spc, sret, stopCalls, panicked, nEvents, eventsClosed,
                   audioRec, audioBuf, cycle, cyc, stoppedBy, audioLog, sends, clipVars, hotVars, fnVars>>

\* Manager.stopRecording from m.mu.Lock() to the m.mu.Unlock() before the audio call
stopRecordingEnter(g) ==
    /\ ~panicked
    /\ pc[g] = "stopRecording"
    /\ mu = Free
    /\ IF ~StopAccepted
         THEN /\ ret' = [ret EXCEPT ![g] = "err_state"]
              /\ pc' = [pc EXCEPT ![g] = AfterCall(g)]
              /\ UNCHANGED <<state, stopTimer, timer, cyc, stoppedBy, data>>
         ELSE /\ timer' = TimerAfterStop(stopTimer)
              /\ stopTimer' = NilTimer
              /\ state' = "Processing"
              /\ ret' = [ret EXCEPT ![g] = "none"]
              /\ data' = [data EXCEPT ![g] = 0]
              /\ cyc' = [cyc EXCEPT ![g] = cycle]
              /\ stoppedBy' = [stoppedBy EXCEPT ![cycle] = g]
              /\ pc' = [pc EXCEPT ![g] = "audioStop"]
    /\ UNCHANGED <<mu, dataChan, dataChanClosed, stopChanClosed, wg, spc, sret,
                   stopCalls, panicked, nEvents, eventsClosed, audioRec, audioBuf,
                   cycle, audioLog, sends, clipVars, hotVars, fnVars>>

\* data, err := m.audio.StopRecording(), called with m.mu released
audioStopRecording(g) ==
    /\ ~panicked
    /\ pc[g] = "audioStop"
    /\ \E streamOk \in BOOLEAN :
          LET ok == AudioStopSucceeds(streamOk) IN
          /\ audioLog' = Append(audioLog, [op |-> "stop", ok |-> ok])
          /\ audioRec' = IF ok THEN FALSE ELSE audioRec
          /\ data' = [data EXCEPT ![g] = IF ok THEN audioBuf ELSE 0]
    /\ pc' = [pc EXCEPT ![g] = "relock"]
    /\ UNCHANGED <<state, mu, stopTimer, dataChan, dataChanClosed, stopChanClosed, wg,
                   timer, ret, spc, sret, stopCalls, panicked, nEvents, eventsClosed,
                   audioBuf, cycle, cyc, stoppedBy, sends, clipVars, hotVars, fnVars>>

\* Manager.stopRecording from the second m.mu.Lock() to its return
stopRecordingFinish(g) ==
    /\ ~panicked
    /\ pc[g] = "relock"
    /\ mu = Free
    /\ IF data[g] = 0
         THEN /\ state' = StateAfterStopFailure
              /\ ret' = [ret EXCEPT ![g] = "err_audio"]
              /\ pc' = [pc EXCEPT ![g] = AfterCall(g)]
              /\ UNCHANGED <<dataChan, sends, panicked>>
         ELSE IF dataChanClosed
           THEN \* a send on a closed channel panics
                /\ panicked' = TRUE
                /\ ret' = [ret EXCEPT ![g] = "panic"]
                /\ pc' = [pc EXCEPT ![g] = "panicked"]
                /\ sends' = [sends EXCEPT ![data[g]] = Append(@, "panic")]
                /\ UNCHANGED <<state, dataChan>>
           ELSE /\ dataChan' = Enqueue(dataChan, data[g])
                /\ sends' = [sends EXCEPT ![data[g]] = Append(@, SelectBranch(dataChan))]
                /\ state' = "Idle"
                /\ ret' = [ret EXCEPT ![g] = "ok"]
                /\ pc' = [pc EXCEPT ![g] = AfterCall(g)]
                /\ UNCHANGED panicked
    /\ UNCHANGED <<mu, stopTimer, dataChanClosed, stopChanClosed, wg, timer, data, spc,
                   sret, stopCalls, nEvents, eventsClosed, audioRec, audioBuf, cycle,
                   cyc, stoppedBy, audioLog, clipVars, hotVars, fnVars>>

\* a task calls Manager.Stop() and reaches m.mu.Lock()
StopCall ==
    /\ ~panicked
    /\ spc \in {"idle", "returned"}
    /\ stopCalls < MaxStopCalls
    /\ stopCalls' = stopCalls + 1
    /\ spc' = "lock"
    /\ sret' = "none"
    /\ UNCHANGED <<state, mu, stopTimer, dataChan, dataChanClosed, stopChanClosed, wg,
                   timer, pc, data, ret, panicked, nEvents, eventsClosed, audioRec,
                   audioBuf, cycle, cyc, stoppedBy, audioLog, sends, clipVars, hotVars, fnVars>>

\* Manager.Stop from m.mu.Lock() to close(m.stopChan); m.mu stays held
StopEnter ==
    /\ ~panicked
    /\ spc = "lock"
    /\ mu = Free
    /\ \E streamOk \in BOOLEAN :
          LET rec == state = "Recording"
              ok == AudioStopSucceeds(streamOk) IN
          /\ IF rec
               THEN /\ timer' = TimerAfterStop(stopTimer)
                    /\ stopTimer' = NilTimer
                    /\ audioLog' = Append(audioLog, [op |-> "stop", ok |-> ok])
                    /\ audioRec' = IF ok THEN FALSE ELSE audioRec
                    /\ stoppedBy' = IF ok THEN [stoppedBy EXCEPT ![cycle] = Stopper]
                                          ELSE stoppedBy
               ELSE UNCHANGED <<timer, stopTimer, audioLog, audioRec, stoppedBy>>
          /\ IF rec /\ ~ok
               THEN \* return the error; the deferred Unlock releases m.mu
                    /\ spc' = "returned"
                    /\ sret' = "err_audio"
                    /\ UNCHANGED <<state, stopChanClosed, mu, panicked>>
               ELSE IF stopChanClosed
                 THEN \* close of a closed channel panics
                      /\ panicked' = TRUE
                      /\ spc' = "panicked"
                      /\ sret' = "panic"
                      /\ state' = IF rec THEN "Idle" ELSE state
                      /\ UNCHANGED <<stopChanClosed, mu>>
                 ELSE /\ state' = IF rec THEN "Idle" ELSE state
                      /\ stopChanClosed' = TRUE
                      /\ mu' = Stopper
                      /\ spc' = "wait"
                      /\ UNCHANGED <<sret, panicked>>
    /\ UNCHANGED <<dataChan, dataChanClosed, wg, pc, data, ret, stopCalls, nEvents,
                   eventsClosed, audioBuf, cycle, cyc, sends, clipVars, hotVars, fnVars>>

\* Manager.Stop from m.wg.Wait() to its return
StopWait ==
    /\ ~panicked
    /\ spc = "wait"
    /\ wg = 0
    /\ dataChanClosed' = TRUE
    /\ mu' = Free
    /\ spc' = "returned"
    /\ sret' = "ok"
    /\ UNCHANGED <<state, stopTimer, dataChan, stopChanClosed, wg, timer, pc, data, ret,
                   stopCalls, panicked, nEvents, eventsClosed, audioRec, audioBuf,
                   cycle, cyc, stoppedBy, audioLog, sends, clipVars, hotVars, fnVars>>

\* the consumer of Manager.Data() receives a buffer
Receive ==
    /\ ~panicked
    /\ dataChan # <<>>
    /\ dataChan' = Tail(dataChan)
    /\ UNCHANGED <<state, mu, stopTimer, dataChanClosed, stopChanClosed, wg, timer, pc,
                   data, ret, spc, sret, stopCalls, panicked, nEvents, eventsClosed,
                   audioRec, audioBuf, cycle, cyc, stoppedBy, audioLog, sends, clipVars, hotVars, fnVars>>

(* ========================= clipboard.Manager =========================== *)
\* what the user may have on, or copy to, the clipboard
Contents == {"a", "b"}
\* the transcriptions pasted
Texts == {"t"}

\* no second call
CoIdle == [pc |-> "idle", text |-> "", cur |-> 0, ret |-> "none"]

\* nothing captured
NoSnap == [count |-> 0, content |-> ""]

ClipInit ==
    /\ cbCount = 0
    /\ cbContent \in Contents
    /\ savedChangeCount = 0
    /\ savedContent = ""
    /\ currentChangeCount = 0
    /\ cpc = "idle"
    /\ text = ""
    /\ cret = "none"
    /\ pasted = <<>>
    /\ nPastes = 0
    /\ nCopies = 0
    /\ preContent = ""
    /\ copyAt = {}
    /\ lastUserCopy = ""
    /\ myWrites = 0
    /\ cbFails = {}
    /\ co = CoIdle
    /\ took = <<NoSnap, NoSnap>>

\* mutant: restore whenever the pasteboard changed at all
ShouldRestoreAnyChange(current, saved) == current >= saved + 1

\* if currentChangeCount == m.savedChangeCount+1 { restore }
ShouldRestore(current, saved) == current = saved + 1

\* a task calls SafePaste(txt)
SafePasteCall ==
    /\ cpc \in {"idle", "returned"}
    /\ nPastes < MaxPastes
    /\ nPastes' = nPastes + 1
    /\ \E txt \in Texts : text' = txt
    /\ cpc' = "save_count"
    /\ cret' = "none"
    /\ preContent' = cbContent
    /\ copyAt' = {}
    /\ myWrites' = 0
    /\ cbFails' = {}
    /\ UNCHANGED <<co, took, cbCount, cbContent, savedChangeCount, savedContent,
                   currentChangeCount, pasted, nCopies, lastUserCopy, recVars, hotVars, fnVars>>

\* SaveClipboard: m.savedChangeCount = GetChangeCount()
SaveCount ==
    /\ cpc = "save_count"
    /\ savedChangeCount' = cbCount
    /\ cpc' = "save_read"
    /\ took' = [took EXCEPT ![1].count = cbCount]
    /\ UNCHANGED <<co, cbFails, cbCount, cbContent, savedContent, currentChangeCount, text, cret,
                   pasted, nPastes, nCopies, preContent, copyAt, lastUserCopy, myWrites,
                   recVars, hotVars, fnVars>>

\* SaveClipboard: content, err := robotgo.ReadAll(); SafePaste returns on err
SaveRead ==
    /\ cpc = "save_read"
    /\ \E ok \in BOOLEAN :
          IF ok
            THEN /\ savedContent' = cbContent
                 /\ cpc' = "write"
                 /\ took' = [took EXCEPT ![1].content = cbContent]
                 /\ UNCHANGED <<cret, cbFails>>
            ELSE /\ cret' = "err_read"
                 /\ cpc' = "returned"
                 /\ cbFails' = cbFails \cup {"read"}
                 /\ UNCHANGED <<savedContent, took>>
    /\ UNCHANGED <<co, cbCount, cbContent, savedChangeCount, currentChangeCount, text,
                   pasted, nPastes, nCopies, preContent, copyAt, lastUserCopy, myWrites,
                   recVars, hotVars, fnVars>>

\* SafePaste: robotgo.WriteAll(text)
WriteText ==
    /\ cpc = "write"
    /\ cbContent' = text
    /\ cbCount' = cbCount + 1
    /\ myWrites' = myWrites + 1
    /\ cpc' = "keytap"
    /\ UNCHANGED <<co, took, cbFails, savedChangeCount, savedContent, currentChangeCount, text, cret,
                   pasted, nPastes, nCopies, preContent, copyAt, lastUserCopy, recVars, hotVars, fnVars>>

\* SafePaste: the settle sleep, then robotgo.KeyTap("v", "cmd")
KeyTap ==
    /\ cpc = "keytap"
    /\ pasted' = Append(pasted, cbContent)
    /\ cpc' = "restore_check"
    /\ UNCHANGED <<co, took, cbFails, cbCount, cbContent, savedChangeCount, savedContent,
                   currentChangeCount, text, cret, nPastes, nCopies, preContent, copyAt,
                   lastUserCopy, myWrites, recVars, hotVars, fnVars>>

\* RestoreClipboard: the restore sleep, currentChangeCount := GetChangeCount(), the test
RestoreCheck ==
    /\ cpc = "restore_check"
    /\ currentChangeCount' = cbCount
    /\ IF ShouldRestore(cbCount, savedChangeCount)
         THEN cpc' = "restore_write" /\ UNCHANGED cret
         ELSE cpc' = "returned" /\ cret' = "ok"
    /\ UNCHANGED <<co, took, cbFails, cbCount, cbContent, savedChangeCount, savedContent, text, pasted,
                   nPastes, nCopies, preContent, copyAt, lastUserCopy, myWrites, recVars, hotVars, fnVars>>

\* RestoreClipboard: robotgo.WriteAll(m.savedContent); return nil
RestoreWrite ==
    /\ cpc = "restore_write"
    /\ cbContent' = savedContent
    /\ cbCount' = cbCount + 1
    /\ myWrites' = myWrites + 1
    /\ cpc' = "returned"
    /\ cret' = "ok"
    /\ UNCHANGED <<co, took, cbFails, savedChangeCount, savedContent, currentChangeCount, text, pasted,
                   nPastes, nCopies, preContent, copyAt, lastUserCopy, recVars, hotVars, fnVars>>

\* SafePaste: robotgo.WriteAll(text) fails; its error is not looked at
WriteTextFails ==
    /\ cpc = "write"
    /\ cbFails' = cbFails \cup {"write"}
    /\ cpc' = "keytap"
    /\ UNCHANGED <<co, took, cbCount, cbContent, myWrites, savedChangeCount, savedContent,
                   currentChangeCount, text, cret, pasted, nPastes, nCopies, preContent,
                   copyAt, lastUserCopy, recVars, hotVars, fnVars>>

\* RestoreClipboard: robotgo.WriteAll(m.savedContent) fails; return nil
RestoreWriteFails ==
    /\ cpc = "restore_write"
    /\ cbFails' = cbFails \cup {"restore"}
    /\ cpc' = "returned"
    /\ cret' = "ok"
    /\ UNCHANGED <<co, took, cbCount, cbContent, myWrites, savedChangeCount, savedContent,
                   currentChangeCount, text, pasted, nPastes, nCopies, preContent,
                   copyAt, lastUserCopy, recVars, hotVars, fnVars>>

\* what the second call leaves alone: the first call and the histories
CoFrame ==
    UNCHANGED <<cpc, text, cret, nCopies, preContent, copyAt, lastUserCopy, myWrites,
                cbFails, currentChangeCount, recVars, hotVars, fnVars>>

\* another task calls SafePaste(txt) on the same Manager
CoCall ==
    /\ co.pc \in {"idle", "returned"}
    /\ nPastes < MaxPastes
    /\ nPastes' = nPastes + 1
    /\ \E txt \in Texts : co' = [CoIdle EXCEPT !.pc = "save_count", !.text = txt]
    /\ CoFrame
    /\ UNCHANGED <<cbCount, cbContent, savedChangeCount, savedContent, pasted, took>>

\* its SaveClipboard: m.savedChangeCount = GetChangeCount()
CoSaveCount ==
    /\ co.pc = "save_count"
    /\ savedChangeCount' = cbCount
    /\ took' = [took EXCEPT ![2].count = cbCount]
    /\ co' = [co EXCEPT !.pc = "save_read"]
    /\ CoFrame
    /\ UNCHANGED <<cbCount, cbContent, savedContent, pasted, nPastes>>

\* its SaveClipboard: content, err := robotgo.ReadAll()
CoSaveRead ==
    /\ co.pc = "save_read"
    /\ \E ok \in BOOLEAN :
          IF ok
            THEN /\ savedContent' = cbContent
                 /\ took' = [took EXCEPT ![2].content = cbContent]
                 /\ co' = [co EXCEPT !.pc = "write"]
            ELSE /\ co' = [co EXCEPT !.pc = "returned", !.ret = "err_read"]
                 /\ UNCHANGED <<savedContent, took>>
    /\ CoFrame
    /\ UNCHANGED <<cbCount, cbContent, savedChangeCount, pasted, nPastes>>

\* its robotgo.WriteAll(text)
CoWriteText ==
    /\ co.pc = "write"
    /\ cbContent' = co.text
    /\ cbCount' = cbCount + 1
    /\ co' = [co EXCEPT !.pc = "keytap"]
    /\ CoFrame
    /\ UNCHANGED <<savedChangeCount, savedContent, pasted, nPastes, took>>

\* its robotgo.KeyTap("v", "cmd")
CoKeyTap ==
    /\ co.pc = "keytap"
    /\ pasted' = Append(pasted, cbContent)
    /\ co' = [co EXCEPT !.pc = "restore_check"]
    /\ CoFrame
    /\ UNCHANGED <<cbCount, cbContent, savedChangeCount, savedContent, nPastes, took>>

\* its RestoreClipboard: currentChangeCount := GetChangeCount(), the test
CoRestoreCheck ==
    /\ co.pc = "restore_check"
    /\ co' = IF ShouldRestore(cbCount, savedChangeCount)
               THEN [co EXCEPT !.pc = "restore_write", !.cur = cbCount]
               ELSE [co EXCEPT !.pc = "returned", !.cur = cbCount, !.ret = "ok"]
    /\ CoFrame
    /\ UNCHANGED <<cbCount, cbContent, savedChangeCount, savedContent, pasted, nPastes, took>>

\* its RestoreClipboard: robotgo.WriteAll(m.savedContent); return nil
CoRestoreWrite ==
    /\ co.pc = "restore_write"
    /\ cbContent' = savedContent
    /\ cbCount' = cbCount + 1
    /\ co' = [co EXCEPT !.pc = "returned", !.ret = "ok"]
    /\ CoFrame
    /\ UNCHANGED <<savedChangeCount, savedContent, pasted, nPastes, took>>

\* the user copies c: the pasteboard takes it and its changeCount goes up by one
UserCopy(c) ==
    /\ nCopies < MaxUserCopies
    /\ nCopies' = nCopies + 1
    /\ cbContent' = c
    /\ cbCount' = cbCount + 1
    /\ lastUserCopy' = c
    /\ copyAt' = IF cpc = "idle" THEN copyAt ELSE copyAt \cup {cpc}
    /\ UNCHANGED <<co, took, cbFails, savedChangeCount, savedContent, currentChangeCount, cpc, text, cret,
                   pasted, nPastes, preContent, myWrites, recVars, hotVars, fnVars>>

(* =========================== hotkey.Manager ============================ *)
\* the modifiers, the keys, the bindings the settings file may hold, the modes
Mods == {"Ctrl", "Option", "Cmd"}
Keys == {"Space", "A"}
Settings == {[mods |-> <<"Ctrl", "Option">>, key |-> "Space"],
             [mods |-> <<"Cmd">>, key |-> "A"]}
Modes == {"PressToHold", "Toggle"}

\* addresses of backing arrays, of channels and of *hotkey.Hotkey instances;
\* what nothing refers to any more is collected and its address reused
ArrIds == 1 .. 6
ChanIds == 1 .. (MaxReloads + 4)
HkIds == 1 .. (MaxRegisters + 2 * MaxReloads + 1)
LoopIds == 1 .. (MaxReloads + 1)

\* the arrays and the channels something still refers to
ArrRefs == {m.config.mods, got.mods, app.old.mods, app.new.mods}
ChanRefs == {m.eventChan, con.ch} \cup {loops[i].ch : i \in DOMAIN loops}

\* the lowest address not in use
FreeArr(used) == CHOOSE i \in ArrIds : i \notin used /\ \A j \in ArrIds : j < i => j \in used
FreeChan(used) == CHOOSE i \in ChanIds : i \notin used /\ \A j \in ChanIds : j < i => j \in used
FreeHk(used) == CHOOSE i \in HkIds : i \notin used /\ \A j \in HkIds : j < i => j \in used

\* make(chan Event, 10)
NewChan == [buf |-> <<>>, closed |-> FALSE]

\* garbage collection
CollectArrs(h, refs) == [i \in ArrIds |-> IF i \in refs THEN h[i] ELSE <<>>]
CollectChans(c, refs) == [i \in ChanIds |-> IF i \in refs THEN c[i] ELSE NewChan]

\* the elements of a modifier slice
Elems(a) == IF a = NilArr THEN <<>> ELSE heap[a]

\* a Config as its reader sees it: the slice's elements, the key, the mode
View(c) == [mods |-> Elems(c.mods), key |-> c.key, mode |-> c.mode]

\* go a.hotkeyEventLoop()
NewLoop == [pc |-> "start", ch |-> NilChan]

\* the zero value of config.HotkeyConfig: no modifier flag set, no key
NoRequest == [mods |-> {}, key |-> ""]

\* the zero value of hotkey.Config
ZeroConfig == [mods |-> NilArr, key |-> "", mode |-> "PressToHold"]

\* hotkey.New()
HotInit ==
    /\ m = [hk |-> NilHotkey,
            config |-> [mods |-> 1, key |-> "Space", mode |-> "PressToHold"],
            eventChan |-> 1, stopClosed |-> FALSE, wg |-> 0, mu |-> Free,
            running |-> FALSE]
    /\ heap = [i \in ArrIds |-> IF i = 1 THEN <<"Ctrl", "Option">> ELSE <<>>]
    /\ chans = [i \in ChanIds |-> NewChan]
    /\ osLive = {}
    /\ lis = [pc |-> "none", toggleState |-> FALSE, ev |-> "none", before |-> FALSE]
    /\ hw = [down |-> FALSE, kd |-> 0, ku |-> 0]
    /\ loops = <<>>
    /\ con = [pc |-> "none", ch |-> NilChan, afterClose |-> FALSE]
    /\ app = [pc |-> "idle", ready |-> FALSE, ret |-> "none", old |-> ZeroConfig,
              new |-> ZeroConfig, needsRollback |-> FALSE, fatal |-> FALSE,
              req |-> NoRequest]
    /\ got = ZeroConfig
    /\ nRegs = 0
    /\ nReloads = 0
    /\ nSignals = 0
    /\ nGets = 0
    /\ nMuts = 0
    /\ hwLog = <<>>
    /\ taken = <<>>
    /\ emitted = <<>>

\* mutant: Register never refuses
RegisterRefusedNever == FALSE

\* if m.running { return error }
RegisterRefused == m.running

\* mutant: a new listener goes on with the toggleState of the one before
ToggleAtStartCarried(prev) == prev

\* listen: toggleState := false
ToggleAtStart(prev) == FALSE

\* what Register returns
RegisterResult(osOk) ==
    IF RegisterRefused THEN "err_running" ELSE IF osOk THEN "ok" ELSE "err_register"

\* Manager.Register(config), under m.mu from entry to return; osOk is the
\* outcome of hk.Register(); m.eventChan and m.hk get new objects
Register(config, osOk) ==
    /\ m.mu = Free
    /\ IF RegisterRefused
         THEN UNCHANGED <<m, osLive, lis, hw, hwLog, taken, emitted>>
         ELSE LET ch == FreeChan(ChanRefs)
                  hk == FreeHk(osLive \cup {m.hk})
              IN  IF osOk
                    THEN /\ m' = [m EXCEPT !.config = config, !.stopClosed = FALSE,
                                           !.eventChan = ch, !.hk = hk,
                                           !.running = TRUE, !.wg = @ + 1]
                         /\ osLive' = osLive \cup {hk}
                         /\ lis' = [pc |-> "select", ev |-> "none",
                                    toggleState |-> ToggleAtStart(lis.toggleState),
                                    before |-> lis.toggleState]
                         /\ hw' = [hw EXCEPT !.kd = 0, !.ku = 0]
                         /\ hwLog' = <<>>
                         /\ taken' = <<>>
                         /\ emitted' = <<>>
                    ELSE /\ m' = [m EXCEPT !.config = config, !.stopClosed = FALSE,
                                           !.eventChan = ch]
                         /\ UNCHANGED <<osLive, lis, hw, hwLog, taken, emitted>>

\* Manager.Close from m.mu.Lock() to close(m.stopChan); m.mu stays held
CloseEnter ==
    /\ m.mu = Free
    /\ IF ~m.running
         THEN UNCHANGED m
         ELSE m' = [m EXCEPT !.stopClosed = TRUE, !.mu = AppTask]

\* m.wg.Wait() returns
ListenerJoined == m.wg = 0

\* mutant: the running flag survives a failed Unregister
RunningAfterCloseKept(unregOk) == ~unregOk

\* m.running = false, whatever Unregister returned
RunningAfterClose(unregOk) == FALSE

\* close(m.eventChan)
ChanAfterClose(c) == [c EXCEPT !.closed = TRUE]

\* what Close returns on a running manager
CloseResult(unregOk) == IF unregOk THEN "ok" ELSE "err_unregister"

\* Manager.Close from m.wg.Wait() to its return; unregOk is the outcome of
\* m.hk.Unregister(); what was pending on the hotkey's channels is gone
CloseFinish(unregOk) ==
    /\ m.mu = AppTask
    /\ ListenerJoined
    /\ osLive' = IF m.hk # NilHotkey /\ unregOk THEN osLive \ {m.hk} ELSE osLive
    /\ m' = [m EXCEPT !.eventChan = NilChan, !.running = RunningAfterClose(unregOk),
                      !.mu = Free]
    /\ chans' = CollectChans(IF m.eventChan # NilChan
                               THEN [chans EXCEPT ![m.eventChan] = ChanAfterClose(@)]
                               ELSE chans, ChanRefs')
    /\ hw' = [hw EXCEPT !.kd = 0, !.ku = 0]
    /\ hwLog' = <<>>
    /\ taken' = <<>>
    /\ emitted' = <<>>

\* mutant: GetConfig returns the manager's own slice
GetConfigModsShallow(fresh) == m.config.mods

\* GetConfig: the slice of the copy it returns, made at address fresh
GetConfigMods(fresh) == IF m.config.mods # NilArr THEN fresh ELSE NilArr

\* GetConfig: make(...) and copy(...) at address fresh
HeapAfterGetConfig(h, fresh) ==
    IF m.config.mods # NilArr THEN [h EXCEPT ![fresh] = h[m.config.mods]] ELSE h

\* Manager.GetConfig(), its copy made at address fresh
GetConfig(fresh) == [m.config EXCEPT !.mods = GetConfigMods(fresh)]

\* the key goes down; the OS signals it on Keydown() of a registered hotkey
KeyDownUpTo(max) ==
    /\ nSignals < max
    /\ ~hw.down
    /\ m.running /\ m.hk \in osLive
    /\ hw' = [hw EXCEPT !.down = TRUE, !.kd = @ + 1]
    /\ hwLog' = Append(hwLog, "down")
    /\ nSignals' = nSignals + 1
    /\ UNCHANGED <<m, heap, chans, osLive, lis, loops, con, app, got, nRegs, nReloads, nGets, nMuts,
                   taken, emitted, recVars, clipVars, fnVars>>

\* the key goes up; the OS signals it on Keyup() of a registered hotkey
KeyUpUpTo(max) ==
    /\ nSignals < max
    /\ hw.down
    /\ m.running /\ m.hk \in osLive
    /\ hw' = [hw EXCEPT !.down = FALSE, !.ku = @ + 1]
    /\ hwLog' = Append(hwLog, "up")
    /\ nSignals' = nSignals + 1
    /\ UNCHANGED <<m, heap, chans, osLive, lis, loops, con, app, got, nRegs, nReloads, nGets, nMuts,
                   taken, emitted, recVars, clipVars, fnVars>>

KeyDown == KeyDownUpTo(MaxKeySignals)

KeyUp == KeyUpUpTo(MaxKeySignals)

\* the signals it takes to fill the event queue and leave the listener with
\* one more event to send
BurstSignals == EventChanCap + 2

\* the key goes down and up while nobody reads the event queue
KeyDownBurst == KeyDownUpTo(BurstSignals)

KeyUpBurst == KeyUpUpTo(BurstSignals)

\* listen: the event a key-down is turned into
KeydownEvent(mode, ts) ==
    IF mode = "PressToHold" THEN "Pressed"
    ELSE IF ~ts THEN "Pressed" ELSE "Released"

\* mutant: a key-up emits Released in Toggle mode only
KeyupEmitsInToggle(mode) == mode = "Toggle"

\* listen: a key-up emits Released only in PressToHold mode
KeyupEmits(mode) == mode = "PressToHold"

\* listen: toggleState after a send (in Toggle mode only a key-down sends)
ToggleAfterSend(mode, ts) == IF mode = "Toggle" THEN ~ts ELSE ts

\* listen: one pass of the select statement; a ready case is chosen at random
ListenSelect ==
    /\ lis.pc = "select"
    /\ \/ /\ hw.kd > 0
          /\ hw' = [hw EXCEPT !.kd = @ - 1]
          /\ taken' = Append(taken, "down")
          /\ lis' = [lis EXCEPT !.pc = "send",
                                !.ev = KeydownEvent(m.config.mode, lis.toggleState)]
          /\ UNCHANGED m
       \/ /\ hw.ku > 0
          /\ hw' = [hw EXCEPT !.ku = @ - 1]
          /\ taken' = Append(taken, "up")
          /\ lis' = IF KeyupEmits(m.config.mode)
                      THEN [lis EXCEPT !.pc = "send", !.ev = "Released"]
                      ELSE lis
          /\ UNCHANGED m
       \/ /\ m.stopClosed
          /\ lis' = [lis EXCEPT !.pc = "exited"]
          /\ m' = [m EXCEPT !.wg = @ - 1]
          /\ UNCHANGED <<hw, taken>>
    /\ UNCHANGED <<heap, chans, osLive, loops, con, app, got, nRegs, nReloads, nSignals, nGets, nMuts,
                   hwLog, emitted, recVars, clipVars, fnVars>>

\* listen: m.eventChan <- Event{...}: blocks while the channel is full or nil,
\* panics when it is closed
ListenSend ==
    /\ lis.pc = "send"
    /\ m.eventChan # NilChan
    /\ IF chans[m.eventChan].closed
         THEN /\ lis' = [lis EXCEPT !.pc = "panicked"]
              /\ UNCHANGED <<chans, emitted>>
         ELSE /\ Len(chans[m.eventChan].buf) < EventChanCap
              /\ chans' = [chans EXCEPT ![m.eventChan].buf = Append(@, lis.ev)]
              /\ emitted' = Append(emitted, lis.ev)
              /\ lis' = [lis EXCEPT !.pc = "select", !.ev = "none",
                                    !.toggleState = ToggleAfterSend(m.config.mode, @)]
    /\ UNCHANGED <<m, heap, osLive, hw, loops, con, app, got, nRegs, nReloads, nSignals, nGets, nMuts,
                   hwLog, taken, recVars, clipVars, fnVars>>

\* hotkeyEventLoop: eventChan := a.hotkeyMgr.Events()
LoopEvents(i) ==
    /\ i \in DOMAIN loops
    /\ loops[i].pc = "start"
    /\ loops' = [loops EXCEPT ![i] = [pc |-> "range", ch |-> m.eventChan]]
    /\ UNCHANGED <<m, heap, chans, osLive, lis, hw, con, app, got, nRegs, nReloads, nSignals, nGets,
                   nMuts, hwLog, taken, emitted, recVars, clipVars, fnVars>>

\* hotkeyEventLoop: for event := range eventChan takes the next event
LoopReceive(i) ==
    /\ i \in DOMAIN loops
    /\ loops[i].pc = "range"
    /\ loops[i].ch # NilChan
    /\ chans[loops[i].ch].buf # <<>>
    /\ chans' = [chans EXCEPT ![loops[i].ch].buf = Tail(@)]
    /\ UNCHANGED <<m, heap, osLive, lis, hw, loops, con, app, got, nRegs, nReloads, nSignals, nGets,
                   nMuts, hwLog, taken, emitted, recVars, clipVars, fnVars>>

\* hotkeyEventLoop: the same receive, the handling of the event told apart
\* from it: the loop is in the body of the range loop
LoopTake(i) ==
    /\ i \in DOMAIN loops
    /\ loops[i].pc = "range"
    /\ loops[i].ch # NilChan
    /\ chans[loops[i].ch].buf # <<>>
    /\ chans' = [chans EXCEPT ![loops[i].ch].buf = Tail(@)]
    /\ loops' = [loops EXCEPT ![i].pc = "handle"]
    /\ UNCHANGED <<m, heap, osLive, lis, hw, con, app, got, nRegs, nReloads, nSignals, nGets,
                   nMuts, hwLog, taken, emitted, recVars, clipVars, fnVars>>

\* hotkeyEventLoop: the body of the range loop is done with the event: the
\* audio driver started or stopped, the recording transcribed and pasted
LoopHandled(i) ==
    /\ i \in DOMAIN loops
    /\ loops[i].pc = "handle"
    /\ loops' = [loops EXCEPT ![i].pc = "range"]
    /\ UNCHANGED <<m, heap, chans, osLive, lis, hw, con, app, got, nRegs, nReloads, nSignals,
                   nGets, nMuts, hwLog, taken, emitted, recVars, clipVars, fnVars>>

\* hotkeyEventLoop: the range ends on a closed and drained channel and the
\* goroutine is gone
LoopEnd(i) ==
    /\ i \in DOMAIN loops
    /\ loops[i].pc = "range"
    /\ loops[i].ch # NilChan
    /\ chans[loops[i].ch].buf = <<>>
    /\ chans[loops[i].ch].closed
    /\ loops' = [j \in 1 .. Len(loops) - 1 |-> IF j < i THEN loops[j] ELSE loops[j + 1]]
    /\ UNCHANGED <<m, heap, osLive, lis, hw, con, app, got, nRegs, nReloads, nSignals,
                   nGets, nMuts, hwLog, taken, emitted, recVars, clipVars, fnVars>>
    /\ chans' = CollectChans(chans, ChanRefs')

\* recording.Manager.Start(): go m.handleHotkeyEvents()
ConsumerStart ==
    /\ con.pc = "none"
    /\ con' = [con EXCEPT !.pc = "eval"]
    /\ UNCHANGED <<m, heap, chans, osLive, lis, hw, loops, app, got, nRegs, nReloads,
                   nSignals, nGets, nMuts, hwLog, taken, emitted, recVars, clipVars, fnVars>>

\* handleHotkeyEvents enters its select: m.hotkey.Events() is evaluated
ConsumerEvents ==
    /\ con.pc = "eval"
    /\ con' = [con EXCEPT !.pc = "wait", !.ch = m.eventChan]
    /\ UNCHANGED <<m, heap, chans, osLive, lis, hw, loops, app, got, nRegs, nReloads,
                   nSignals, nGets, nMuts, hwLog, taken, emitted, recVars, clipVars, fnVars>>

\* handleHotkeyEvents: case event, ok := <-...  with ok: the event is handled
\* and the loop goes round
ConsumerReceive ==
    /\ con.pc = "wait"
    /\ con.ch # NilChan
    /\ chans[con.ch].buf # <<>>
    /\ con' = [pc |-> "eval", ch |-> NilChan, afterClose |-> chans[con.ch].closed]
    /\ UNCHANGED <<m, heap, osLive, lis, hw, loops, app, got, nRegs, nReloads,
                   nSignals, nGets, nMuts, hwLog, taken, emitted, recVars, clipVars, fnVars>>
    /\ chans' = CollectChans([chans EXCEPT ![con.ch].buf = Tail(@)], ChanRefs')

\* handleHotkeyEvents: case event, ok := <-...  with !ok: return
ConsumerEnd ==
    /\ con.pc = "wait"
    /\ con.ch # NilChan
    /\ chans[con.ch].buf = <<>>
    /\ chans[con.ch].closed
    /\ con' = [con EXCEPT !.pc = "exited", !.ch = NilChan]
    /\ UNCHANGED <<m, heap, osLive, lis, hw, loops, app, got, nRegs, nReloads,
                   nSignals, nGets, nMuts, hwLog, taken, emitted, recVars, clipVars, fnVars>>
    /\ chans' = CollectChans(chans, ChanRefs')

\* a caller builds a Config and calls Register
AppRegister(b, mode, osOk) ==
    /\ app.pc = "idle"
    /\ nRegs < MaxRegisters
    /\ nRegs' = nRegs + 1
    /\ UNCHANGED <<loops, con, got, nReloads, nSignals, nGets, nMuts, recVars, clipVars, fnVars>>
    /\ LET a == FreeArr(ArrRefs) IN
         /\ Register([mods |-> a, key |-> b.key, mode |-> mode], osOk)
         /\ app' = [app EXCEPT !.ret = RegisterResult(osOk)]
         /\ chans' = CollectChans(chans, ChanRefs')
         /\ heap' = CollectArrs([heap EXCEPT ![a] = b.mods], ArrRefs')

\* a caller calls Register() with the Config it holds and keeps holding:
\* m.config = config shares the caller's modifier slice
AppRegisterGot(osOk) ==
    /\ app.pc = "idle"
    /\ nGets > 0
    /\ nRegs < MaxRegisters
    /\ nRegs' = nRegs + 1
    /\ UNCHANGED <<loops, con, got, nReloads, nSignals, nGets, nMuts, recVars, clipVars, fnVars>>
    /\ Register(got, osOk)
    /\ app' = [app EXCEPT !.ret = RegisterResult(osOk)]
    /\ chans' = CollectChans(chans, ChanRefs')
    /\ heap' = CollectArrs(heap, ArrRefs')

\* a caller calls Close(): up to close(m.stopChan), or the whole call when the
\* manager is not running
AppCloseEnter ==
    /\ app.pc = "idle"
    /\ CloseEnter
    /\ app' = IF m.running THEN [app EXCEPT !.pc = "close_wait", !.ret = "none"]
                           ELSE [app EXCEPT !.ret = "ok"]
    /\ UNCHANGED <<heap, chans, osLive, lis, hw, loops, con, got, nRegs, nReloads,
                   nSignals, nGets, nMuts, hwLog, taken, emitted, recVars, clipVars, fnVars>>

\* the rest of that Close()
AppCloseFinish(unregOk) ==
    /\ app.pc = "close_wait"
    /\ UNCHANGED <<heap, lis, loops, con, got, nRegs, nReloads, nSignals, nGets, nMuts,
                   recVars, clipVars, fnVars>>
    /\ CloseFinish(unregOk)
    /\ app' = [app EXCEPT !.pc = "idle", !.ret = CloseResult(unregOk)]

\* onReady: the orchestrator registers the binding of the settings file in
\* PressToHold mode and starts the event loop when that succeeded
OnReady(b, osOk) ==
    /\ app.pc = "idle"
    /\ ~app.ready
    /\ UNCHANGED <<con, got, nRegs, nReloads, nSignals, nGets, nMuts, recVars, clipVars, fnVars>>
    /\ LET a == FreeArr(ArrRefs) IN
         /\ Register([mods |-> a, key |-> b.key, mode |-> "PressToHold"], osOk)
         /\ app' = [app EXCEPT !.ready = TRUE, !.ret = RegisterResult(osOk)]
         /\ loops' = IF RegisterResult(osOk) = "ok" THEN Append(loops, NewLoop) ELSE loops
         /\ chans' = CollectChans(chans, ChanRefs')
         /\ heap' = CollectArrs([heap EXCEPT ![a] = b.mods], ArrRefs')

\* ReloadHotkey from its entry to the Close() of the running hotkey, called by
\* the task whose record is a0, with b the binding the settings file holds
ReloadEnter(b, loadOk, a0) ==
    /\ app.pc = "idle"
    /\ app.ready
    /\ nReloads < MaxReloads
    /\ nReloads' = nReloads + 1
    /\ m.mu = Free
    /\ UNCHANGED <<m, chans, osLive, lis, hw, loops, con, got, nRegs, nSignals, nGets,
                   nMuts, hwLog, taken, emitted, recVars, clipVars, fnVars>>
    /\ IF ~loadOk
         THEN /\ app' = [a0 EXCEPT !.ret = "err_load"]
              /\ UNCHANGED heap
         ELSE LET a1 == FreeArr(ArrRefs)
                  a2 == FreeArr(ArrRefs \cup {a1})
                  h1 == [heap EXCEPT ![a1] = b.mods]
                  new == [mods |-> a1, key |-> b.key, mode |-> "PressToHold"]
              IN  /\ app' = IF m.running
                              THEN [a0 EXCEPT !.pc = "rl_close", !.ret = "none",
                                               !.new = new, !.old = GetConfig(a2),
                                               !.needsRollback = TRUE, !.fatal = FALSE]
                              ELSE [a0 EXCEPT !.pc = "rl_register", !.ret = "none",
                                               !.new = new, !.fatal = FALSE]
                  /\ heap' = CollectArrs(IF m.running THEN HeapAfterGetConfig(h1, a2)
                                                      ELSE h1, ArrRefs')

\* ReloadHotkey called with whatever the settings file holds
ReloadStart(b, loadOk) == ReloadEnter(b, loadOk, app)

\* the modifiers in the order configToModifiers appends them
ModOrder == <<"Ctrl", "Shift", "Option", "Cmd">>

\* configToModifiers: the flags set, as a slice
configToModifiers(flags) == SelectSeq(ModOrder, LAMBDA x : x \in flags)

\* stringToKey: a name the key map does not hold becomes Space
stringToKey(keyStr) == IF keyStr \in Keys THEN keyStr ELSE "Space"

\* the bodies of POST /api/hotkey/register: the modifier flags set and the
\* key name, one of them a known name, one empty, one no key map holds
Requests == [mods : {{}, {"Cmd"}}, key : {"A", "", "F13"}]

\* handleHotkeyRegister: its two checks of the decoded request
RequestRejected(req) == req.key = "" \/ req.mods = {}

\* handleHotkeyRegister: the request is checked, saved to the settings file
\* and applied by onHotkeyChanged, which is ReloadHotkey; the file holds what
\* was saved
HandleHotkeyRegister(req, saveOk, loadOk) ==
    IF RequestRejected(req) \/ ~saveOk
      THEN /\ app.pc = "idle"
           /\ app.ready
           /\ nReloads < MaxReloads
           /\ nReloads' = nReloads + 1
           /\ app' = [app EXCEPT !.req = req,
                                 !.ret = IF RequestRejected(req) THEN "bad_request"
                                                                 ELSE "err_save"]
           /\ UNCHANGED <<m, heap, chans, osLive, lis, hw, loops, con, got, nRegs, nSignals,
                          nGets, nMuts, hwLog, taken, emitted, recVars, clipVars, fnVars>>
      ELSE ReloadEnter([mods |-> configToModifiers(req.mods), key |-> stringToKey(req.key)],
                       loadOk, [app EXCEPT !.req = req])

\* ReloadHotkey: a.hotkeyMgr.Close() up to close(m.stopChan)
ReloadCloseEnter ==
    /\ app.pc = "rl_close"
    /\ CloseEnter
    /\ app' = [app EXCEPT !.pc = IF m.running THEN "rl_close_wait" ELSE "rl_register"]
    /\ UNCHANGED <<heap, chans, osLive, lis, hw, loops, con, got, nRegs, nReloads,
                   nSignals, nGets, nMuts, hwLog, taken, emitted, recVars, clipVars, fnVars>>

\* ReloadHotkey returns r: its locals are gone
Returned(r) == [app EXCEPT !.pc = "idle", !.ret = r, !.old = ZeroConfig,
                           !.new = ZeroConfig, !.needsRollback = FALSE]

\* ReloadHotkey: the rest of that Close(); its error ends the reload
ReloadCloseFinish(unregOk) ==
    /\ app.pc = "rl_close_wait"
    /\ UNCHANGED <<lis, loops, con, got, nRegs, nReloads, nSignals, nGets, nMuts,
                   recVars, clipVars, fnVars>>
    /\ CloseFinish(unregOk)
    /\ app' = IF unregOk THEN [app EXCEPT !.pc = "rl_register"] ELSE Returned("err_close")
    /\ heap' = CollectArrs(heap, ArrRefs')

\* ReloadHotkey: Register(newConfig) and, when it succeeded, go hotkeyEventLoop()
ReloadRegister(osOk) ==
    /\ app.pc = "rl_register"
    /\ UNCHANGED <<con, got, nRegs, nReloads, nSignals, nGets, nMuts, recVars, clipVars, fnVars>>
    /\ Register(app.new, osOk)
    /\ IF RegisterResult(osOk) = "ok"
         THEN /\ loops' = Append(loops, NewLoop)
              /\ app' = Returned("ok")
         ELSE /\ loops' = loops
              /\ app' = IF app.needsRollback THEN [app EXCEPT !.pc = "rl_rollback"]
                                             ELSE Returned("err_new")
    /\ chans' = CollectChans(chans, ChanRefs')
    /\ heap' = CollectArrs(heap, ArrRefs')

\* mutant: the rollback registers the new binding again
RollbackArgNew(old, new) == new

\* the binding the rollback registers
RollbackArg(old, new) == old

\* ReloadHotkey: the rollback Register(oldConfig); go hotkeyEventLoop() when it
\* succeeded, the restart message when it failed
ReloadRollback(osOk) ==
    /\ app.pc = "rl_rollback"
    /\ UNCHANGED <<con, got, nRegs, nReloads, nSignals, nGets, nMuts, recVars, clipVars, fnVars>>
    /\ Register(RollbackArg(app.old, app.new), osOk)
    /\ IF RegisterResult(osOk) = "ok"
         THEN /\ loops' = Append(loops, NewLoop)
              /\ app' = Returned("err_new")
         ELSE /\ loops' = loops
              /\ app' = [Returned("err_fatal") EXCEPT !.fatal = TRUE]
    /\ chans' = CollectChans(chans, ChanRefs')
    /\ heap' = CollectArrs(heap, ArrRefs')

\* the caller keeps the result of a GetConfig() call
AppGetConfig ==
    /\ app.pc = "idle"
    /\ m.mu = Free
    /\ nGets < MaxGets
    /\ nGets' = nGets + 1
    /\ UNCHANGED <<m, chans, osLive, lis, hw, loops, con, app, nRegs, nReloads, nSignals,
                   nMuts, hwLog, taken, emitted, recVars, clipVars, fnVars>>
    /\ LET a == FreeArr(ArrRefs) IN
         /\ got' = GetConfig(a)
         /\ heap' = CollectArrs(HeapAfterGetConfig(heap, a), ArrRefs')

\* the caller mutates the config it got: overwrites a modifier, appends one
\* (the slice is full, so append moves it to a new array), or changes the key
\* or the mode
Mutate ==
    /\ nGets > 0
    /\ nMuts < MaxMutations
    /\ nMuts' = nMuts + 1
    /\ UNCHANGED <<m, chans, osLive, lis, hw, loops, con, app, nRegs, nReloads, nSignals,
                   nGets, hwLog, taken, emitted, recVars, clipVars, fnVars>>
    /\ \/ /\ got.mods # NilArr
          /\ \E x \in Mods :
                /\ x # heap[got.mods][1]
                /\ heap' = [heap EXCEPT ![got.mods][1] = x]
          /\ UNCHANGED got
       \/ \E x \in Mods :
             LET a == FreeArr(ArrRefs) IN
             /\ got' = [got EXCEPT !.mods = a]
             /\ heap' = CollectArrs([heap EXCEPT ![a] = Append(Elems(got.mods), x)],
                                    ArrRefs')
       \/ /\ \E k \in Keys : k # got.key /\ got' = [got EXCEPT !.key = k]
          /\ UNCHANGED heap
       \/ /\ \E md \in Modes : md # got.mode /\ got' = [got EXCEPT !.mode = md]
          /\ UNCHANGED heap

(* ================= conflict detection and formatting =================== *)
\* the modifier lists and the keys passed: keys with a display name, a
\* letter, and a key keyToString knows nothing of
ModLists == UNION {[1 .. n -> {"Ctrl", "Shift", "Option", "Cmd"}] : n \in 0 .. MaxMods}
FmtKeys == {"Space", "Escape", "A", "F1"}

\* var knownConflicts
knownConflicts ==
    <<[Name |-> "Spotlight", Modifiers |-> <<"Cmd">>, Key |-> "Space"],
      [Name |-> "Alfred", Modifiers |-> <<"Cmd">>, Key |-> "Space"],
      [Name |-> "Raycast", Modifiers |-> <<"Cmd">>, Key |-> "Space"],
      [Name |-> "IME Switch", Modifiers |-> <<"Cmd">>, Key |-> "Space"],
      [Name |-> "Force Quit", Modifiers |-> <<"Cmd", "Option">>, Key |-> "Escape"]>>

\* hotkeyMatches: the keys of the map it builds of a list
ModMap(mods) == {mods[i] : i \in DOMAIN mods}

\* hotkeyMatches: same key, same length, every modifier of the first map in
\* the second
hotkeyMatches(mods1, key1, mods2, key2) ==
    IF key1 # key2 THEN FALSE
    ELSE IF Len(mods1) # Len(mods2) THEN FALSE
    ELSE \A mod \in ModMap(mods1) : mod \in ModMap(mods2)

\* CheckConflicts: the catalog entries that match, in catalog order
CheckConflicts(modifiers, key) ==
    SelectSeq(knownConflicts,
              LAMBDA known : hotkeyMatches(modifiers, key, known.Modifiers, known.Key))

\* FormatHotkey: the symbol of a modifier, named by its code point
ModSymbol(mod) ==
    CASE mod = "Ctrl" -> "U+2303"
      [] mod = "Shift" -> "U+21E7"
      [] mod = "Option" -> "U+2325"
      [] mod = "Cmd" -> "U+2318"

\* keyToString: the display name of a named key, a letter as itself, any
\* other key as Unknown
keyToString(key) ==
    CASE key = "Space" -> "Space"
      [] key = "Escape" -> "Esc"
      [] key = "A" -> "A"
      [] OTHER -> "Unknown"

\* FormatHotkey: the loop over the modifiers; a string is the sequence of its
\* symbols
RECURSIVE FormatMods(_)
FormatMods(modifiers) ==
    IF modifiers = <<>> THEN <<>>
    ELSE <<ModSymbol(Head(modifiers))>> \o FormatMods(Tail(modifiers))

\* mutant: the modifiers are written last to first
FormatHotkeyReversed(modifiers, key) ==
    FormatMods([i \in DOMAIN modifiers |-> modifiers[Len(modifiers) + 1 - i]])
        \o <<keyToString(key)>>

\* FormatHotkey: the symbols, then the key's label
FormatHotkey(modifiers, key) == FormatMods(modifiers) \o <<keyToString(key)>>

\* no function called yet
NoResult == [f |-> "none", v |-> <<>>]

\* the arguments a caller passes
FmtInputs == [a : ModLists, k1 : FmtKeys, b : ModLists, k2 : {"Space", "Escape"}]

\* a caller calls hotkeyMatches(a, k1, b, k2)
CallHotkeyMatches ==
    /\ fout.f = "none"
    /\ fout' = [f |-> "hotkeyMatches", v |-> hotkeyMatches(fin.a, fin.k1, fin.b, fin.k2)]
    /\ UNCHANGED <<fin, sp, wp, recVars, clipVars, hotVars>>

\* a caller calls CheckConflicts(a, k1)
CallCheckConflicts ==
    /\ fout.f = "none"
    /\ fout' = [f |-> "CheckConflicts", v |-> CheckConflicts(fin.a, fin.k1)]
    /\ UNCHANGED <<fin, sp, wp, recVars, clipVars, hotVars>>

\* a caller calls FormatHotkey(a, k1)
CallFormatHotkey ==
    /\ fout.f = "none"
    /\ fout' = [f |-> "FormatHotkey", v |-> FormatHotkey(fin.a, fin.k1)]
    /\ UNCHANGED <<fin, sp, wp, recVars, clipVars, hotVars>>

FmtNext ==
    \/ CallHotkeyMatches
    \/ CallCheckConflicts
    \/ CallFormatHotkey

HotNext ==
    \/ \E b \in Settings, osOk \in BOOLEAN : OnReady(b, osOk)
    \/ \E b \in Settings, loadOk \in BOOLEAN : ReloadStart(b, loadOk)
    \/ ReloadCloseEnter
    \/ \E unregOk \in BOOLEAN : ReloadCloseFinish(unregOk)
    \/ \E osOk \in BOOLEAN : ReloadRegister(osOk)
    \/ \E osOk \in BOOLEAN : ReloadRollback(osOk)
    \/ KeyDown
    \/ KeyUp
    \/ ListenSelect
    \/ ListenSend
    \/ \E i \in LoopIds : LoopEvents(i)
    \/ \E i \in LoopIds : LoopReceive(i)
    \/ \E i \in LoopIds : LoopEnd(i)

\* the orchestrator's reconfiguration with event loops that take time to
\* handle an event
LoopNext ==
    \/ \E b \in Settings, osOk \in BOOLEAN : OnReady(b, osOk)
    \/ \E b \in Settings, loadOk \in BOOLEAN : ReloadStart(b, loadOk)
    \/ ReloadCloseEnter
    \/ \E unregOk \in BOOLEAN : ReloadCloseFinish(unregOk)
    \/ \E osOk \in BOOLEAN : ReloadRegister(osOk)
    \/ \E osOk \in BOOLEAN : ReloadRollback(osOk)
    \/ KeyDown
    \/ KeyUp
    \/ ListenSelect
    \/ ListenSend
    \/ \E i \in LoopIds : LoopEvents(i)
    \/ \E i \in LoopIds : LoopTake(i)
    \/ \E i \in LoopIds : LoopHandled(i)
    \/ \E i \in LoopIds : LoopEnd(i)

KeyNext ==
    \/ \E b \in Settings, mode \in Modes, osOk \in BOOLEAN : AppRegister(b, mode, osOk)
    \/ AppCloseEnter
    \/ \E unregOk \in BOOLEAN : AppCloseFinish(unregOk)
    \/ KeyDown
    \/ KeyUp
    \/ ListenSelect
    \/ ListenSend
    \/ ConsumerStart
    \/ ConsumerEvents
    \/ ConsumerReceive
    \/ ConsumerEnd

\* the hotkey manager and the key, with no consumer of Events(); the binding
\* is registered in press-to-hold mode, as the orchestrator does
FullNext ==
    \/ \E b \in Settings, osOk \in BOOLEAN : AppRegister(b, "PressToHold", osOk)
    \/ AppCloseEnter
    \/ \E unregOk \in BOOLEAN : AppCloseFinish(unregOk)
    \/ KeyDownBurst
    \/ KeyUpBurst
    \/ ListenSelect
    \/ ListenSend

ApiNext ==
    \/ \E b \in Settings, osOk \in BOOLEAN : OnReady(b, osOk)
    \/ \E req \in Requests, saveOk, loadOk \in BOOLEAN : HandleHotkeyRegister(req, saveOk, loadOk)
    \/ ReloadCloseEnter
    \/ \E unregOk \in BOOLEAN : ReloadCloseFinish(unregOk)
    \/ \E osOk \in BOOLEAN : ReloadRegister(osOk)
    \/ \E osOk \in BOOLEAN : ReloadRollback(osOk)
    \/ KeyDown
    \/ KeyUp
    \/ ListenSelect
    \/ ListenSend

CfgNext ==
    \/ \E b \in Settings, mode \in Modes, osOk \in BOOLEAN : AppRegister(b, mode, osOk)
    \/ AppGetConfig
    \/ Mutate

\* the hotkey manager and a caller that registers the config it holds,
\* mutates it, and closes
OwnNext ==
    \/ \E osOk \in BOOLEAN : AppRegisterGot(osOk)
    \/ AppGetConfig
    \/ Mutate
    \/ AppCloseEnter
    \/ \E unregOk \in BOOLEAN : AppCloseFinish(unregOk)
    \/ ListenSelect

ClipNext ==
    \/ SafePasteCall
    \/ SaveCount
    \/ SaveRead
    \/ WriteText
    \/ KeyTap
    \/ RestoreCheck
    \/ RestoreWrite
    \/ \E c \in Contents : UserCopy(c)

RecNext ==
    \/ Start
    \/ HotkeyClosed
    \/ HandleSelect
    \/ startRecording
    \/ \E t \in Timers : TimerFire(t)
    \/ \E g \in Procs : stopRecordingEnter(g)
    \/ \E g \in Procs : audioStopRecording(g)
    \/ \E g \in Procs : stopRecordingFinish(g)
    \/ StopCall
    \/ StopEnter
    \/ StopWait
    \/ Receive

(* ==================== clipboard.Manager: splitText ===================== *)
\* A string is the sequence of its bytes, a rune is its code point.
\* the runes the texts are made of: 'a', '.', U+3042 and U+3002
Alphabet == {97, 46, 12354, 12290}

\* ch == '。' || ch == '、' || ch == '.' || ch == ',' || ch == '\n'
Boundaries == {12290, 12289, 46, 44, 10}

\* searchStart := end - 50
SearchWindow == 50

\* string(r): the UTF-8 bytes of one rune of the basic plane
EncodeRune(r) ==
    IF r < 128 THEN <<r>>
    ELSE IF r < 2048 THEN <<192 + (r \div 64), 128 + (r % 64)>>
    ELSE <<224 + (r \div 4096), 128 + ((r \div 64) % 64), 128 + (r % 64)>>

\* string(runes)
RECURSIVE Encode(_)
Encode(runes) ==
    IF runes = <<>> THEN <<>> ELSE EncodeRune(Head(runes)) \o Encode(Tail(runes))

\* a UTF-8 continuation byte
IsCont(b) == b >= 128 /\ b < 192

\* []rune(s) from byte i on: a byte that starts no well-formed sequence is
\* U+FFFD and takes one byte
RECURSIVE DecodeFrom(_, _)
DecodeFrom(s, i) ==
    IF i > Len(s) THEN <<>>
    ELSE IF s[i] < 128 THEN <<s[i]>> \o DecodeFrom(s, i + 1)
    ELSE IF s[i] >= 194 /\ s[i] < 224 /\ i + 1 <= Len(s) /\ IsCont(s[i + 1])
        THEN <<(s[i] - 192) * 64 + (s[i + 1] - 128)>> \o DecodeFrom(s, i + 2)
    ELSE IF s[i] >= 224 /\ s[i] < 240 /\ i + 2 <= Len(s)
            /\ IsCont(s[i + 1]) /\ IsCont(s[i + 2])
        THEN <<(s[i] - 224) * 4096 + (s[i + 1] - 128) * 64 + (s[i + 2] - 128)>>
                 \o DecodeFrom(s, i + 3)
    ELSE <<65533>> \o DecodeFrom(s, i + 1)

\* mutant: one rune per byte
RunesBytewise(s) == s

\* runes := []rune(text)
Runes(s) == DecodeFrom(s, 1)

\* mutant: the window may run one rune past splitSize
WindowEndWide(start, n, len) == IF start + n + 1 > len THEN len ELSE start + n + 1

\* end := start + m.splitSize; if end > len(runes) { end = len(runes) }
WindowEnd(start, n, len) == IF start + n > len THEN len ELSE start + n

\* searchStart := end - 50; if searchStart < start { searchStart = start }
SearchStart(start, end) == IF end - SearchWindow < start THEN start ELSE end - SearchWindow

\* mutant: the scan stops at the first boundary rune of the search range
BestSplitFirst(runes, start, end) ==
    LET found == {i \in SearchStart(start, end)..(end - 1) : runes[i + 1] \in Boundaries}
    IN  IF found = {} THEN -1
        ELSE (CHOOSE i \in found : \A j \in found : j >= i) + 1

\* the scan from end-1 down to searchStart: i+1 for the last boundary rune, -1 if none
BestSplit(runes, start, end) ==
    LET found == {i \in SearchStart(start, end)..(end - 1) : runes[i + 1] \in Boundaries}
    IN  IF found = {} THEN -1
        ELSE (CHOOSE i \in found : \A j \in found : j <= i) + 1

\* where the chunk that starts at start ends
ChunkEnd(runes, start, n) ==
    LET end == WindowEnd(start, n, Len(runes))
    IN  IF end < Len(runes) /\ BestSplit(runes, start, end) # -1
          THEN BestSplit(runes, start, end)
          ELSE end

\* no splitText call
SplitIdle == [pc |-> "idle", runes |-> <<>>, start |-> 0, chunks |-> <<>>]

\* splitText up to its loop: a text of at most splitSize bytes is its own chunk
SplitBegin ==
    /\ sp.pc = "idle"
    /\ sp' = IF Len(fin.text) <= fin.n
               THEN [SplitIdle EXCEPT !.pc = "done", !.chunks = <<fin.text>>]
               ELSE [SplitIdle EXCEPT !.pc = "loop", !.runes = Runes(fin.text)]

\* a caller other than SafePasteWithSplit calls splitText(text)
SplitCall ==
    /\ wp.pc = "idle"
    /\ SplitBegin
    /\ UNCHANGED <<fin, fout, wp, recVars, clipVars, hotVars>>

\* one pass of the loop: chunks = append(chunks, string(runes[start:end])); start = end
SplitChunk ==
    /\ sp.pc = "loop"
    /\ sp.start < Len(sp.runes)
    /\ LET end == ChunkEnd(sp.runes, sp.start, fin.n)
       IN  sp' = [sp EXCEPT !.chunks = Append(@, Encode(SubSeq(sp.runes, sp.start + 1, end))),
                            !.start = end]
    /\ UNCHANGED <<fin, fout, wp, recVars, clipVars, hotVars>>

\* the loop ends: return chunks
SplitReturn ==
    /\ sp.pc = "loop"
    /\ ~(sp.start < Len(sp.runes))
    /\ sp' = [sp EXCEPT !.pc = "done"]
    /\ UNCHANGED <<fin, fout, wp, recVars, clipVars, hotVars>>

\* the texts up to MaxTextLen runes
ShortTexts == UNION {[1..k -> Alphabet] : k \in 0..MaxTextLen}

\* the texts longer than the search window: a first rune or none, 'a' to
\* the width of the window, then a short text
LongTexts ==
    {h \o [i \in 1..SearchWindow |-> 97] \o t :
        h \in {<<>>} \cup {<<r>> : r \in Alphabet}, t \in ShortTexts}

\* the arguments of splitText and m.splitSize
SplitInputs ==
    {[text |-> Encode(t), n |-> n] : t \in ShortTexts, n \in 1..MaxSplitSize}
        \cup {[text |-> Encode(t), n |-> SearchWindow + 1] : t \in LongTexts}

SplitNext ==
    \/ SplitCall
    \/ SplitChunk
    \/ SplitReturn

(* ================ clipboard.Manager: SafePasteWithSplit ================ *)
\* what SafePasteWithSplit returns: nothing yet, nil, SafePaste's own error
\* for a short text, or "failed to paste chunk i"
NoReturn == [kind |-> "none", i |-> 0]

\* no SafePasteWithSplit call
PasteIdle == [pc |-> "idle", chunks |-> <<>>, i |-> 0, ret |-> NoReturn, log |-> <<>>]

\* m.SafePaste(txt) is called
SafePasteBegin(txt) ==
    /\ cpc \in {"idle", "returned"}
    /\ nPastes' = nPastes + 1
    /\ text' = txt
    /\ cpc' = "save_count"
    /\ cret' = "none"
    /\ preContent' = cbContent
    /\ copyAt' = {}
    /\ myWrites' = 0
    /\ cbFails' = {}
    /\ UNCHANGED <<co, took, cbCount, cbContent, savedChangeCount, savedContent,
                   currentChangeCount, pasted, nCopies, lastUserCopy>>

\* SafePasteWithSplit(text): a text of at most splitSize bytes goes to
\* SafePaste whole, a longer one to splitText
PasteWithSplitCall ==
    /\ wp.pc = "idle"
    /\ IF Len(fin.text) <= fin.n
         THEN /\ SafePasteBegin(fin.text)
              /\ wp' = [wp EXCEPT !.pc = "direct"]
              /\ UNCHANGED sp
         ELSE /\ SplitBegin
              /\ wp' = [wp EXCEPT !.pc = "split"]
              /\ UNCHANGED clipVars
    /\ UNCHANGED <<fin, fout, recVars, hotVars>>

\* return m.SafePaste(text)
PasteDirectReturn ==
    /\ wp.pc = "direct"
    /\ cpc = "returned"
    /\ wp' = [wp EXCEPT !.pc = "returned",
                        !.ret = [kind |-> IF cret = "ok" THEN "ok" ELSE "err_direct", i |-> 0]]
    /\ UNCHANGED <<fin, fout, sp, recVars, clipVars, hotVars>>

\* chunks := m.splitText(text) has returned
PasteTakeChunks ==
    /\ wp.pc = "split"
    /\ sp.pc = "done"
    /\ wp' = [wp EXCEPT !.pc = "next", !.chunks = sp.chunks, !.i = 0]
    /\ UNCHANGED <<fin, fout, sp, recVars, clipVars, hotVars>>

\* for i, chunk := range chunks { m.SafePaste(chunk) ...
PasteChunk ==
    /\ wp.pc = "next"
    /\ wp.i < Len(wp.chunks)
    /\ SafePasteBegin(wp.chunks[wp.i + 1])
    /\ wp' = [wp EXCEPT !.pc = "pasting", !.log = Append(@, [op |-> "begin", i |-> wp.i])]
    /\ UNCHANGED <<fin, fout, sp, recVars, hotVars>>

\* mutant: sleep after every chunk
SleepsAfterEvery(i, n) == TRUE

\* if i < len(chunks)-1 { time.Sleep(m.splitInterval) }
SleepsAfter(i, n) == i < n - 1

\* SafePaste(chunk) returned: its error ends the call with the chunk's index,
\* else the pacing sleep and the next chunk
PasteChunkReturn ==
    /\ wp.pc = "pasting"
    /\ cpc = "returned"
    /\ IF cret # "ok"
         THEN wp' = [wp EXCEPT !.pc = "returned", !.ret = [kind |-> "err_chunk", i |-> wp.i]]
         ELSE wp' = [wp EXCEPT !.pc = "next", !.i = @ + 1,
                               !.log = @ \o <<[op |-> "end", i |-> wp.i]>>
                                         \o IF SleepsAfter(wp.i, Len(wp.chunks))
                                              THEN <<[op |-> "sleep", i |-> wp.i]>>
                                              ELSE <<>>]
    /\ UNCHANGED <<fin, fout, sp, recVars, clipVars, hotVars>>

\* the range loop is over: return nil
PasteLoopReturn ==
    /\ wp.pc = "next"
    /\ ~(wp.i < Len(wp.chunks))
    /\ wp' = [wp EXCEPT !.pc = "returned", !.ret = [kind |-> "ok", i |-> 0]]
    /\ UNCHANGED <<fin, fout, sp, recVars, clipVars, hotVars>>

\* the texts pasted and m.splitSize
PasteInputs ==
    {[text |-> Encode(t), n |-> n] : t \in ShortTexts, n \in 1..MaxSplitSize}

PasteNext ==
    \/ PasteWithSplitCall
    \/ PasteDirectReturn
    \/ SplitChunk
    \/ SplitReturn
    \/ PasteTakeChunks
    \/ PasteChunk
    \/ PasteChunkReturn
    \/ PasteLoopReturn
    \/ SaveCount
    \/ SaveRead
    \/ WriteText
    \/ KeyTap
    \/ RestoreCheck
    \/ RestoreWrite

\* no function and no SafePasteWithSplit called
FnInit ==
    /\ fin = NoResult
    /\ fout = NoResult
    /\ sp = SplitIdle
    /\ wp = PasteIdle

Init == RecInit /\ ClipInit /\ HotInit /\ FnInit

\* the recording manager starts with a clipboard nobody touches
InitRec == Init /\ cbContent = "a"

\* the recording manager and its goroutines
SpecRec == InitRec /\ [][RecNext]_vars

\* SafePaste and the user
SpecClip == Init /\ [][ClipNext]_vars

\* SafePaste and the user, with pasteboard writes that can fail
ClipErrNext ==
    \/ ClipNext
    \/ WriteTextFails
    \/ RestoreWriteFails

SpecClipErr == Init /\ [][ClipErrNext]_vars

\* two tasks calling SafePaste on one Manager, nobody else at the pasteboard
CoNext ==
    \/ SafePasteCall
    \/ SaveCount
    \/ SaveRead
    \/ WriteText
    \/ KeyTap
    \/ RestoreCheck
    \/ RestoreWrite
    \/ CoCall
    \/ CoSaveCount
    \/ CoSaveRead
    \/ CoWriteText
    \/ CoKeyTap
    \/ CoRestoreCheck
    \/ CoRestoreWrite

SpecCo == Init /\ [][CoNext]_vars

\* the hotkey manager under the orchestrator: registration, reconfiguration,
\* shutdown and the event loops
SpecHot == InitRec /\ [][HotNext]_vars

\* the hotkey manager with the key: the listener and the events it sends
\* the same with the handling of an event as a step of its own
SpecLoop == InitRec /\ [][LoopNext]_vars

SpecKey == InitRec /\ [][KeyNext]_vars

\* the hotkey manager with the key while nobody consumes its events
SpecFull == InitRec /\ [][FullNext]_vars

\* the settings API's registration requests applied to the running hotkey
SpecApi == InitRec /\ [][ApiNext]_vars

\* the conflict and format functions on every argument within the bounds
InitFmt ==
    /\ RecInit /\ ClipInit /\ HotInit
    /\ cbContent = "a"
    /\ fin \in FmtInputs
    /\ fout = NoResult
    /\ sp = SplitIdle
    /\ wp = PasteIdle

SpecFmt == InitFmt /\ [][FmtNext]_vars

\* splitText on every text and split size within the bounds
InitSplit ==
    /\ RecInit /\ ClipInit /\ HotInit
    /\ cbContent = "a"
    /\ fin \in SplitInputs
    /\ fout = NoResult
    /\ sp = SplitIdle
    /\ wp = PasteIdle

SpecSplit == InitSplit /\ [][SplitNext]_vars

\* the same, the loop of splitText scheduled until it returns
SpecSplitLive == SpecSplit /\ WF_vars(SplitNext)

\* SafePasteWithSplit on every text and split size within the bounds
InitPaste ==
    /\ RecInit /\ ClipInit /\ HotInit
    /\ cbContent = "a"
    /\ fin \in PasteInputs
    /\ fout = NoResult
    /\ sp = SplitIdle
    /\ wp = PasteIdle

SpecPaste == InitPaste /\ [][PasteNext]_vars

\* the hotkey manager and a caller that mutates the config it got
SpecCfg == InitRec /\ [][CfgNext]_vars

\* the hotkey manager registered with a config its caller keeps
SpecOwn == InitRec /\ [][OwnNext]_vars

(* ============================== claims ================================= *)
StartStep == pc[Handler] = "startRecording" /\ pc'[Handler] # "startRecording"
EnterStep(g) == pc[g] = "stopRecording" /\ pc'[g] # "stopRecording"
FinishStep(g) == pc[g] = "relock" /\ pc'[g] # "relock"
LastAudio == audioLog'[Len(audioLog')]

\* positions of SafePaste between its snapshot and its restore decision
Window == {"write", "keytap", "restore_check"}

C2_UserCopyWins ==
    (cpc = "returned" /\ cret = "ok" /\ copyAt # {} /\ copyAt \subseteq Window)
        => cbContent = lastUserCopy

\* C3: a Pressed handled while Idle calls the audio driver's start exactly
\* once; on success the state is Recording and exactly one timer is armed,
\* m.stopTimer pointing to it; on failure the error is returned, the state is
\* still Idle and no timer is armed.
C3_PressedWhileIdle ==
    [][(StartStep /\ state = "Idle") =>
          /\ Len(audioLog') = Len(audioLog) + 1
          /\ LastAudio.op = "start"
          /\ IF LastAudio.ok
               THEN /\ ret'[Handler] = "ok"
                    /\ state' = "Recording"
                    /\ stopTimer' # NilTimer
                    /\ {t \in Timers : timer'[t] = "armed"} = {stopTimer'}
                    /\ timer[stopTimer'] = "unused"
               ELSE /\ ret'[Handler] = "err_audio"
                    /\ state' = "Idle"
                    /\ stopTimer' = NilTimer
                    /\ {t \in Timers : timer'[t] = "armed"} = {}
                    /\ timer' = timer]_vars

C3_Witness ==
    /\ Len(audioLog) = 2
    /\ audioLog[1] = [op |-> "start", ok |-> FALSE]
    /\ audioLog[2] = [op |-> "start", ok |-> TRUE]
    /\ state = "Recording" /\ ret[Handler] = "ok"
    /\ stopTimer = 1 /\ timer[1] = "armed"

\* C4: a Pressed handled while the state is not Idle, and a Released handled
\* while the state is not Recording, return an error and leave the state, the
\* timers, the outbound queue and the audio driver as they were.
C4_InvalidEventRejected ==
    [][((StartStep /\ state # "Idle") \/ (EnterStep(Handler) /\ state # "Recording")) =>
          /\ ret'[Handler] = "err_state"
          /\ pc'[Handler] = "select"
          /\ UNCHANGED <<state, stopTimer, timer, dataChan, dataChanClosed, audioLog,
                         audioRec, audioBuf, cycle>>]_vars

C4_Witness ==
    /\ ret[Handler] = "err_state"
    /\ pc[Handler] = "select"
    /\ state = "Processing"
    /\ nEvents >= 2

\* C5 as claimed: every Released accepted while Recording whose audio stop
\* succeeds goes Recording -> Processing -> Idle with the timer cancelled and
\* puts the buffer the audio stop returned on the outbound queue.
C5_ExactlyOneHandoff ==
    [][/\ (EnterStep(Handler) /\ state = "Recording") =>
              (state' = "Processing" /\ {t \in Timers : timer'[t] = "armed"} = {})
       /\ (FinishStep(Handler) /\ data[Handler] # 0) =>
              /\ state = "Processing" /\ state' = "Idle"
              /\ data[Handler] = cyc[Handler]
              /\ dataChan' = Append(dataChan, data[Handler])]_vars

\* C5 as amended: every Released accepted while Recording whose audio stop
\* succeeds goes Recording -> Processing -> Idle with the pending timer
\* cancelled, and executes exactly one non-blocking send for the buffer the
\* audio stop returned: the buffer is queued when the slot is free and
\* dropped when the slot is occupied.
C5_AtMostOneHandoff ==
    [][/\ (EnterStep(Handler) /\ state = "Recording") =>
              /\ state' = "Processing"
              /\ stopTimer' = NilTimer
              /\ {t \in Timers : timer'[t] = "armed"} = {}
              /\ pc'[Handler] = "audioStop"
       /\ (pc'[Handler] \in {"audioStop", "relock"}) =>
              (state' = "Processing" /\ {t \in Timers : timer'[t] = "armed"} = {})
       /\ (FinishStep(Handler) /\ data[Handler] # 0) =>
              /\ state = "Processing" /\ state' = "Idle"
              /\ ret'[Handler] = "ok"
              /\ data[Handler] = cyc[Handler]
              /\ Len(sends'[cyc[Handler]]) = 1
              /\ dataChan' = IF Len(dataChan) < DataChanCap
                               THEN Append(dataChan, data[Handler])
                               ELSE dataChan]_vars

C5_Witness ==
    /\ pc[Handler] = "select" /\ ret[Handler] = "ok"
    /\ state = "Idle"
    /\ stoppedBy[1] = Handler /\ sends[1] = <<"sent">>
    /\ stoppedBy[2] = Handler /\ sends[2] = <<"dropped">>
    /\ dataChan = <<1>>
    /\ timer[1] = "stopped" /\ timer[2] = "stopped"

\* C6: the outbound queue never holds more than one buffer, and a stop
\* sequence that reaches its handoff with the slot occupied drops its buffer,
\* keeps the queued one and returns the state to Idle.
C6_DropKeepsIdle ==
    [][/\ Len(dataChan') <= 1
       /\ \A g \in Procs :
            (FinishStep(g) /\ data[g] # 0 /\ Len(dataChan) = 1) =>
                (dataChan' = dataChan /\ state' = "Idle")]_vars

\* C7: for every recording the stop sequence runs at most once (one select
\* for its buffer); a timer that wins stops its own recording; and when the
\* manual Released stopped a recording, that recording's timer callback is
\* rejected and performs no stop sequence.
C7_OneStopOtherRejected ==
    \A c \in Timers :
        /\ Len(sends[c]) <= 1
        /\ stoppedBy[c] = c => cyc[c] = c
        /\ stoppedBy[c] = Handler =>
              /\ pc[c] \in {"none", "stopRecording", "done"}
              /\ pc[c] = "done" => ret[c] = "err_state"

\* C8: the callback of a timer stops no recording but the one it was armed
\* for.
C8_TimerStopsOwnRecordingOnly ==
    \A t \in Timers : cyc[t] \in {0, t}

\* C9: an operation whose audio call fails returns the error, leaves the
\* state Idle, queues nothing and makes no second audio call.
C9_AudioFailureResetsToIdle ==
    [][/\ (StartStep /\ ret'[Handler] = "err_audio") =>
              (state' = "Idle" /\ dataChan' = dataChan /\ Len(audioLog') = Len(audioLog) + 1)
       /\ \A g \in Procs :
            (FinishStep(g) /\ ret'[g] = "err_audio") =>
                (state' = "Idle" /\ dataChan' = dataChan /\ audioLog' = audioLog)
       /\ (spc = "lock" /\ spc' = "returned" /\ sret' = "err_audio") =>
              (state' = "Idle" /\ dataChan' = dataChan /\ Len(audioLog') = Len(audioLog) + 1)]_vars

\* C10: when Stop() returns without error the state is Idle, no timer is
\* armed, the event handling goroutine is not running and the outbound queue
\* is closed; and the first Stop() returns without error when no recording
\* was ever started.
C10_StopSettles ==
    [][/\ (spc # "returned" /\ spc' = "returned" /\ sret' = "ok") =>
              /\ state' = "Idle"
              /\ {t \in Timers : timer'[t] = "armed"} = {}
              /\ stopTimer' = NilTimer
              /\ pc'[Handler] \in {"notstarted", "exited"}
              /\ dataChanClosed'
       /\ (spc = "lock" /\ spc' # "lock" /\ cycle = 0 /\ stopCalls = 1) =>
              spc' = "wait"]_vars

\* C11: a Stop() call made after an earlier Stop() has returned without error
\* does not crash, returns without error and changes nothing of the manager.
C11_SecondStopHarmless ==
    [][(spc = "lock" /\ spc' # "lock" /\ dataChanClosed) =>
          /\ ~panicked'
          /\ sret' # "panic"
          /\ UNCHANGED <<state, stopTimer, timer, dataChan, dataChanClosed,
                         stopChanClosed, audioLog>>]_vars

\* C12: once Stop() has returned without error no goroutine of the manager
\* is running any more: the event handling goroutine has exited, no timer
\* callback is inside a stop sequence, the state does not change and nothing
\* is sent on the closed outbound queue.
C12_NothingOutlivesStop ==
    [][(spc = "returned" /\ sret = "ok" /\ spc' = "returned") =>
          /\ pc[Handler] \in {"notstarted", "exited"}
          /\ \A t \in Timers : pc[t] \notin {"audioStop", "relock"}
          /\ state' = state
          /\ sends' = sends
          /\ ~panicked']_vars

\* a step in which a caller's Register() call runs (from entry to return)
RegisterStep == nRegs' = nRegs + 1

\* C13: Register() on a manager that is already running returns the 'already
\* running' error and changes nothing: not the binding GetConfig() reports,
\* not the OS registration, not the event queue, not the listener, not the
\* running flag.
C13_RegisterWhileRunningRefused ==
    [][(RegisterStep /\ m.running) =>
          /\ app'.ret = "err_running"
          /\ View(m.config)' = View(m.config)
          /\ UNCHANGED <<m, osLive, chans, lis, hw, taken, emitted>>]_vars

\* a Register() was refused while the listener of the running registration
\* was at work on a key signal
C13_Witness ==
    /\ app.ret = "err_running"
    /\ m.running
    /\ lis.pc = "send"
    /\ nRegs = 2

\* a step in which a Close() call made on a running manager returns
CloseReturnStep == app.pc = "close_wait" /\ app'.pc = "idle"

\* a step in which a whole Close() call runs and reports something new: the
\* caller is between calls before and after it and made no Register()
CloseAtOnceStep == app.pc = "idle" /\ app'.pc = "idle" /\ ~RegisterStep /\ app' # app

\* C14: every Close() leaves the manager unregistered. On a manager that is
\* not running it returns success and changes nothing; on a running manager
\* the running flag is cleared even when the OS unregistration fails, so the
\* Register() that follows is not refused as 'already running'.
C14_CloseLeavesUnregistered ==
    [][/\ CloseAtOnceStep =>
             /\ ~m.running
             /\ app'.ret = "ok"
             /\ UNCHANGED <<m, heap, chans, osLive, lis, hw, con, taken, emitted>>
       /\ CloseReturnStep =>
             /\ ~m'.running
             /\ m'.mu = Free
             /\ app'.ret \in {"ok", "err_unregister"}
             /\ (app'.ret = "err_unregister") <=> (m.hk \in osLive')
       /\ (RegisterStep /\ app.ret = "err_unregister") =>
             app'.ret \in {"ok", "err_register"}]_vars

\* after the only Register() a Close() failed to unregister with the OS, and
\* the Close() made after it, on the manager no longer running, returned success
C14_Witness ==
    /\ nRegs = 1
    /\ osLive # {}
    /\ ~m.running
    /\ app.pc = "idle"
    /\ app.ret = "ok"

\* a step in which the listener sends an event on the manager's queue
SendStep == emitted' # emitted /\ emitted' # <<>>

\* a handleHotkeyEvents goroutine blocked for good: its select waits on a nil
\* channel, which never becomes ready
BlockedOnNil == con.pc = "wait" /\ con.ch = NilChan

\* C15: when Close() on a running manager returns, the listener has
\* terminated and the queue is closed, no event is sent on it afterwards, and
\* every consumer that was waiting on the queue it got from Events() reads
\* the buffered events and then the end of the queue instead of blocking
\* forever.
C15_CloseEndsListenerAndQueue ==
    [][/\ CloseReturnStep =>
             /\ lis.pc = "exited" /\ lis'.pc = "exited"
             /\ \A c \in ChanRefs' : (c # NilChan /\ c = m.eventChan) => chans'[c].closed
       /\ SendStep => ~chans[m.eventChan].closed
       /\ lis'.pc # "panicked"
       /\ ~(con.afterClose /\ BlockedOnNil)']_vars

\* the events the listener sent since the last successful Register, with the
\* one it is sending
Sent == IF lis.pc = "send" THEN Append(emitted, lis.ev) ELSE emitted

\* the event PressToHold mode makes of a signal
HoldEvent(sig) == IF sig = "down" THEN "Pressed" ELSE "Released"

\* C16: in PressToHold mode the listener turns every key-down it takes into
\* exactly one Pressed and every key-up into exactly one Released, whatever
\* came before.
C16_PressToHoldOnePerSignal ==
    (m.running /\ m.config.mode = "PressToHold") =>
        /\ Len(Sent) = Len(taken)
        /\ \A i \in DOMAIN taken : Sent[i] = HoldEvent(taken[i])

\* the key went down, up and down again under a PressToHold registration and
\* the three events are out
C16_Witness ==
    /\ m.running
    /\ m.config.mode = "PressToHold"
    /\ taken = <<"down", "up", "down">>
    /\ emitted = <<"Pressed", "Released", "Pressed">>

\* the key-downs among the signals s
Downs(s) == Len(SelectSeq(s, LAMBDA x : x = "down"))

\* the i-th event of a Toggle registration
ToggleEvent(i) == IF i % 2 = 1 THEN "Pressed" ELSE "Released"

\* C17: in Toggle mode a key-up emits nothing and every key-down the listener
\* takes emits exactly one event; the events since the last successful
\* Register alternate Pressed, Released, ... and begin with Pressed, whatever
\* the toggle state was when the registration before it was closed.
C17_ToggleAlternates ==
    (m.running /\ m.config.mode = "Toggle") =>
        /\ Len(Sent) = Downs(taken)
        /\ \A i \in DOMAIN Sent : Sent[i] = ToggleEvent(i)

\* the listener before this one ended with its toggle state set; the key
\* went up and down under the Toggle registration made after the Close and
\* the only event is Pressed
C17_Witness ==
    /\ m.running
    /\ m.config.mode = "Toggle"
    /\ lis.before
    /\ taken = <<"up", "down">>
    /\ emitted = <<"Pressed">>

\* C18: events are delivered in the order of the hardware signals: the
\* listener takes the signals in the order the hardware produced them, so in
\* PressToHold mode the Released of a key-up is never sent before the Pressed
\* of the key-down before it, also when both signals are pending together.
C18_EventsInHardwareOrder ==
    m.running =>
        /\ Len(taken) <= Len(hwLog)
        /\ \A i \in DOMAIN taken : taken[i] = hwLog[i]
        /\ (m.config.mode = "PressToHold") =>
              \A i \in DOMAIN Sent : i <= Len(hwLog) /\ Sent[i] = HoldEvent(hwLog[i])

\* a step in which the caller mutates the Config it got from GetConfig()
MutateStep == nMuts' = nMuts + 1

\* a step in which the caller's GetConfig() call runs
GetConfigStep == nGets' = nGets + 1

RollbackStep == app.pc = "rl_rollback" /\ app'.pc = "idle"

\* C20: when Register(NEW) failed in a reload and the rollback Register(OLD)
\* succeeds, then on return the manager is running with the old binding
\* (GetConfig() = OLD) registered with the OS, its listener is running, an
\* event loop has been started for the current, open queue and the error
\* returned is the non-fatal one; when the rollback fails too, the fatal
\* 'restart required' error is surfaced.
C20_RollbackRestoresOld ==
    [][RollbackStep =>
          IF m'.running
            THEN /\ View(m.config)' = View(app.old)
                 /\ m'.hk \in osLive'
                 /\ lis'.pc = "select"
                 /\ m'.eventChan # NilChan
                 /\ ~chans'[m'.eventChan].closed
                 /\ loops' = Append(loops, NewLoop)
                 /\ app'.ret = "err_new"
                 /\ ~app'.fatal
            ELSE /\ app'.ret = "err_fatal"
                 /\ app'.fatal]_vars

\* a reload whose Register(NEW) failed returned after a successful rollback:
\* the manager runs and the event loop started for it is about to get the queue
C20_Witness ==
    /\ nReloads = 1
    /\ app.pc = "idle"
    /\ app.ret = "err_new"
    /\ m.running
    /\ loops # <<>>
    /\ loops[Len(loops)] = NewLoop

\* a step in which a ReloadHotkey call that found the manager running returns
ReloadReturnStep == app.pc # "idle" /\ app'.pc = "idle" /\ app.needsRollback

\* C21: a ReloadHotkey that was started with a running manager returns with
\* the manager not running only when the rollback registration failed and
\* the fatal error was shown; in every other outcome, failures of Close
\* included, the new or the old binding is registered on return.
C21_NeverSilentlyHotkeyless ==
    [][ReloadReturnStep =>
          IF m'.running
            THEN /\ m'.hk \in osLive'
                 /\ View(m.config)' \in {View(app.new), View(app.old)}
            ELSE app'.fatal]_vars

\* a step in which handleHotkeyRegister takes a request
RequestStep == nReloads' = nReloads + 1

\* a request whose key is a key name and that has a modifier
ValidRequest(req) == req.key \in Keys /\ req.mods # {}

\* C22: a registration request whose key is empty or no key name, or that
\* has no modifier, is rejected at once: the request returns an error, the
\* manager is left as it was, and no Register() reaches the OS for it.
C22_InvalidBindingRejected ==
    [][/\ (RequestStep /\ ~ValidRequest(app'.req)) =>
             /\ app'.pc = "idle"
             /\ app'.ret \in {"bad_request", "err_save"}
             /\ View(m.config)' = View(m.config)
             /\ UNCHANGED <<m, osLive, chans, lis>>
       /\ (app.pc = "rl_register" /\ app' # app) => ValidRequest(app.req)]_vars

\* C23: between calls of Register() and Close(), whose OS registration and
\* OS unregistration may fail, at most one hotkey is registered with the OS
\* and at most one listener runs, and there is one of each exactly when the
\* running flag is set.
C23_OneRegistration ==
    (app.pc = "idle") =>
        /\ Cardinality(osLive) <= 1
        /\ (osLive # {}) <=> m.running
        /\ (lis.pc \in {"select", "send"}) <=> m.running

\* the set of the modifiers a list holds
SetOf(l) == {l[i] : i \in DOMAIN l}

SymbolOf == [Ctrl |-> "U+2303", Shift |-> "U+21E7", Option |-> "U+2325", Cmd |-> "U+2318"]
LabelsOf(key) ==
    CASE key = "Space" -> {"Space"}
      [] key = "Escape" -> {"Esc", "Escape"}
      [] key = "A" -> {"A"}
      [] OTHER -> {"Unknown"}

\* C26: FormatHotkey writes the modifier symbols in the fixed order Ctrl,
\* Shift, Option, Cmd and then the key's label, whatever the order of the
\* modifiers passed, so the same key and modifier set give the same string
\* (stated for lists that name no modifier twice).
C26_FormatIsCanonical ==
    (fout.f = "FormatHotkey" /\ Cardinality(SetOf(fin.a)) = Len(fin.a)) =>
        LET canon == SelectSeq(<<"Ctrl", "Shift", "Option", "Cmd">>,
                               LAMBDA x : x \in SetOf(fin.a))
        IN  /\ Len(fout.v) = Len(canon) + 1
            /\ \A i \in DOMAIN canon : fout.v[i] = SymbolOf[canon[i]]
            /\ fout.v[Len(fout.v)] \in LabelsOf(fin.k1)

RECURSIVE Concat(_)
Concat(chunks) ==
    IF chunks = <<>> THEN <<>> ELSE Head(chunks) \o Concat(Tail(chunks))

\* the code points of a chunk
RuneCount(chunk) == Len(Runes(chunk))

\* C28: the chunks splitText returns, joined in order, are the text it was
\* given, byte for byte, for every text and every split size of at least 1,
\* with multi-byte characters and sentence boundary characters in the text.
C28_SplitIsLossless ==
    (sp.pc = "done") => Concat(sp.chunks) = fin.text

\* a text with a multi-byte character was split in several chunks, one of
\* them cut short at a sentence boundary
C28_Witness ==
    /\ sp.pc = "done"
    /\ Len(sp.chunks) > 1
    /\ \E i \in 1..Len(fin.text) : fin.text[i] >= 128
    /\ \E i \in 1..(Len(sp.chunks) - 1) :
          /\ RuneCount(sp.chunks[i]) < fin.n
          /\ Runes(sp.chunks[i])[RuneCount(sp.chunks[i])] \in Boundaries

\* C29: for every text and every split size of at least 1 splitText returns,
\* every chunk has at most splitSize code points, and when there is more
\* than one chunk every chunk has at least one code point.
C29_SplitTerminatesBounded ==
    /\ <>(sp.pc = "done")
    /\ [](\A i \in 1..Len(sp.chunks) :
             /\ RuneCount(sp.chunks[i]) <= fin.n
             /\ (Len(sp.chunks) > 1 => RuneCount(sp.chunks[i]) >= 1))

\* splitText returned several chunks, one of them of splitSize code points
\* that take more bytes than that
C29_Witness ==
    /\ sp.pc = "done"
    /\ Len(sp.chunks) > 1
    /\ \E i \in 1..Len(sp.chunks) :
          RuneCount(sp.chunks[i]) = fin.n /\ Len(sp.chunks[i]) > fin.n

\* the pastes and sleeps of a call that gets through chunks i .. k-1 of k
RECURSIVE ExpectedLog(_, _)
ExpectedLog(i, k) ==
    IF i >= k THEN <<>>
    ELSE <<[op |-> "begin", i |-> i], [op |-> "end", i |-> i]>>
             \o (IF i + 1 < k THEN <<[op |-> "sleep", i |-> i]>> ELSE <<>>)
             \o ExpectedLog(i + 1, k)

\* s is the beginning of t
IsPrefix(s, t) == Len(s) <= Len(t) /\ s = SubSeq(t, 1, Len(s))

\* C30: SafePasteWithSplit on a text longer than splitSize pastes the chunks
\* of splitText one after the other in split order, the SafePaste of a chunk
\* beginning only when that of the chunk before it has returned, with one
\* pacing sleep between consecutive chunks and none after the last; when the
\* SafePaste of chunk i fails it returns an error that carries i and no
\* later chunk is written to the clipboard or pasted.
C30_ChunksPastedInOrder ==
    /\ [](Len(fin.text) > fin.n =>
          /\ IsPrefix(wp.log, ExpectedLog(0, Len(wp.chunks)))
          /\ IsPrefix(pasted, wp.chunks)
          /\ (wp.pc = "pasting" /\ cpc \notin {"save_count", "save_read"}) =>
                 text = wp.chunks[wp.i + 1]
          /\ (wp.pc = "next") => Len(pasted) = wp.i
          /\ (wp.pc = "returned" /\ wp.ret.kind = "ok") =>
                 (pasted = sp.chunks /\ wp.log = ExpectedLog(0, Len(sp.chunks)))
          /\ (wp.pc = "returned" /\ wp.ret.kind = "err_chunk") =>
                 /\ cret # "ok"
                 /\ pasted = SubSeq(wp.chunks, 1, wp.ret.i)
                 /\ wp.log[Len(wp.log)] = [op |-> "begin", i |-> wp.ret.i])
    /\ [][(wp.pc = "returned" /\ wp.ret.kind = "err_chunk") =>
              UNCHANGED <<cbCount, cbContent, pasted, nPastes>>]_vars
    /\ [][(wp.pc = "pasting" /\ wp'.pc = "returned") =>
              (wp'.ret.kind = "err_chunk" /\ wp'.ret.i = wp.i)]_vars

\* the second of three or more chunks failed, after the first was pasted
\* and the pacing sleep taken
C30_Witness ==
    /\ wp.pc = "returned"
    /\ wp.ret = [kind |-> "err_chunk", i |-> 1]
    /\ Len(wp.chunks) >= 3
    /\ pasted = <<wp.chunks[1]>>

\* C31: SafePaste never returns success after one of its pasteboard reads or
\* writes (the snapshot read, the write of the text, the restore write) failed.
C31_ClipboardErrorsSurface ==
    (cpc = "returned" /\ cret = "ok") => cbFails = {}

\* C32: the counter a SafePaste call compares against and the content it
\* restores are the ones its own SaveClipboard captured, also when another
\* SafePaste call on the same Manager ran before it or runs along with it.
C32_SnapshotIsLocal ==
    [][/\ (cpc = "restore_check" /\ cpc' # "restore_check") =>
              savedChangeCount = took[1].count
       /\ (cpc = "restore_write" /\ cpc' = "returned") =>
              cbContent' = took[1].content
       /\ (co.pc = "restore_check" /\ co'.pc # "restore_check") =>
              savedChangeCount = took[2].count
       /\ (co.pc = "restore_write" /\ co'.pc = "returned") =>
              cbContent' = took[2].content]_vars

\* the positions (from 0) of the boundary characters among the last
\* min(50, n) code points of the window of n code points that starts at start
LookbackBoundaries(runes, start, n) ==
    {i \in (start + n - (IF n < 50 THEN n ELSE 50))..(start + n - 1) :
        runes[i + 1] \in {12290, 12289, 46, 44, 10}}

\* C33: a chunk cut from a window of N code points that is not the final one
\* ends right after the last boundary character among the last min(50, N)
\* code points of the window, and is the whole window when there is none;
\* the final chunk is all that is left of the text.
C33_SplitPrefersBoundaries ==
    [][(sp.pc = "loop" /\ sp'.pc = "loop" /\ sp'.start # sp.start) =>
          LET B == LookbackBoundaries(sp.runes, sp.start, fin.n)
          IN  /\ sp'.chunks = Append(sp.chunks,
                                     Encode(SubSeq(sp.runes, sp.start + 1, sp'.start)))
              /\ IF sp.start + fin.n >= Len(sp.runes)
                   THEN sp'.start = Len(sp.runes)
                   ELSE IF B # {}
                     THEN \E i \in B : (\A j \in B : j <= i) /\ sp'.start = i + 1
                     ELSE sp'.start = sp.start + fin.n]_vars

\* a window wider than the lookback was cut at its full width although its
\* first code point is a boundary character, and text is left after it
C33_Witness ==
    /\ sp.pc = "loop"
    /\ fin.n > 50
    /\ Len(sp.chunks) = 1
    /\ sp.start = fin.n
    /\ sp.start < Len(sp.runes)
    /\ sp.runes[1] \in Boundaries

\* C34: while Close() waits for the listening task, the task can take a
\* step that brings it to the stop signal or has ended, also with the event
\* queue full and nobody reading it: Close() is never left waiting forever.
C34_CloseAlwaysReturns ==
    (app.pc = "close_wait") =>
        (ListenerJoined \/ ENABLED ListenSelect \/ ENABLED ListenSend)

\* C35: while Stop() waits for the event handling goroutine, that goroutine
\* has ended or can take its next step, whatever it was doing when Stop()
\* was called: Stop() is never left waiting forever.
C35_StopAlwaysReturns ==
    (spc = "wait") =>
        \/ wg = 0
        \/ ENABLED HandleSelect
        \/ ENABLED startRecording
        \/ ENABLED stopRecordingEnter(Handler)
        \/ ENABLED audioStopRecording(Handler)
        \/ ENABLED stopRecordingFinish(Handler)

\* C36: a Register() that fails because the OS refuses the combination
\* leaves the manager as it was: not running, no listener started, and
\* GetConfig() reporting the binding it reported before the call.
C36_FailedRegisterChangesNothing ==
    [][(RegisterStep /\ app'.ret = "err_register") =>
          /\ ~m'.running
          /\ lis' = lis
          /\ osLive' = osLive
          /\ View(m.config)' = View(m.config)]_vars

\* C37: once Register(binding) has succeeded, a mutation of the caller's own
\* binding value does not change the binding GetConfig() returns; the active
\* binding changes only in a Register().
C37_RegisteredBindingImmutable ==
    [][(m.running /\ ~RegisterStep) => View(m.config)' = View(m.config)]_vars

\* the audio calls made, the start calls that failed left out
StartedAndStops == SelectSeq(audioLog, LAMBDA e : ~(e.op = "start" /\ ~e.ok))

\* C38: the calls to the audio driver alternate start, stop, start, stop,
\* beginning with a start: no start while a recording is not yet stopped and
\* no second stop for one start (a start call that failed started nothing
\* and is not counted).
C38_AudioCallsAlternate ==
    \A i \in 1..Len(StartedAndStops) :
        StartedAndStops[i].op = (IF i % 2 = 1 THEN "start" ELSE "stop")

\* C39: whenever m.mu is free and the state is Recording, the max-duration
\* timer of the current recording is armed or has expired with its callback
\* still to run; whenever the state is Idle no timer is armed.
C39_RecordingIsBounded ==
    /\ (mu = Free /\ state = "Recording") =>
          /\ cycle \in Timers
          /\ \/ timer[cycle] = "armed"
             \/ timer[cycle] = "fired" /\ pc[cycle] = "stopRecording"
    /\ (state = "Idle") => {t \in Timers : timer[t] = "armed"} = {}

\* the event loops that are handling an event
Handling == {i \in DOMAIN loops : loops[i].pc = "handle"}

\* C40: at most one hotkey event loop is handling an event at any time: the
\* loop of the queue before a reconfiguration is done before the loop
\* started by the reconfiguration handles its first event.
C40_OneLoopHandles ==
    Cardinality(Handling) <= 1
====
